---- MODULE Spec2Model ----
(***************************************************************************)
(* Model of the dependency-aware leveling resolver of PaxDei-Planner       *)
(* (src/src/paxdei_planner/level_planner.py, xp_model.py, skills.py).      *)
(*                                                                         *)
(* XP figures are Python floats in the source.  They are modelled in       *)
(* fixed point: one unit is 1/XpUnit of an XP point (XpUnit = 2000),       *)
(* which represents exactly every value the XP model produces once the     *)
(* logistic success chance is taken to three decimals (which keeps every   *)
(* product below 2^31) and the premium boost (x1.5) is applied.  ""        *)
(* stands for Python's None wherever a key is optional.                    *)
(***************************************************************************)
EXTENDS Integers, Sequences, FiniteSets, TLC

VARIABLES
    book,             \* g.recipes: the Recipe objects loaded, by their index in RecipeBook
    recipes,          \* g.recipes: the indices of the loaded recipes, in file order
    skills_table,     \* g.skills: skill -> xp_to_level sequence
    premium_account,  \* profile["premium_account"]
    avoid_relics,     \* profile["avoid_relics"]
    max_cross_skill_gap, \* profile["max_cross_skill_gap"]
    material_config,  \* the items whose materials_config entry has enabled = false
    profile,          \* self.profile["skills"]: the profile as loaded, never written
    target_level,     \* self.target_level
    cur_level,        \* self.cur_level
    cur_xp,           \* self.cur_xp
    owned_crafter,    \* self.owned_crafter
    max_steps,        \* plan(max_steps=...)
    top_k,            \* plan(top_k=...)
    skill_queue,      \* plan(): skill_queue
    steps,            \* plan(): steps
    stagnant_cycles,  \* plan(): stagnant_cycles
    plan,             \* plan(): the list of PlanStep built so far
    pc,               \* "loop" while plan() runs its while loop, "done" after it returned,
                      \* "raised" after it raised; "call" and "return" around a direct call
    history,          \* history: <<skill, outcome>> of every loop iteration of plan();
                      \* of a direct call repeated on a second planner, the first result
    call_in,          \* a direct call of one of the planner's methods: its arguments
    call_out,         \* and its result
    progress_levels_done, \* self._progress_levels_done
    progress_calls,   \* the argument tuples of the calls of self._progress_callback
    runs,             \* PlanService: the number of request_plan() calls so far; the worker
                      \* and the thread of the n-th call are both named n
    _thread,          \* PlanService._thread (0: None)
    _worker,          \* PlanService._worker (0: None)
    _progress_timer,  \* PlanService._progress_timer is set and started
    workers,          \* per run: where PlanWorker.run is, its _progress_updates queue,
                      \* whether quit() was called on its thread, all it recorded
    ui_events,        \* the queued signal deliveries posted to the UI thread
    ui_pc,            \* the UI thread: "idle" in its event loop, or the method blocked
                      \* in QThread.wait()
    signals           \* the signals PlanService emitted, in order

vars == <<book, recipes, skills_table, premium_account, avoid_relics, max_cross_skill_gap,
          material_config, profile, target_level, cur_level, cur_xp,
          owned_crafter, max_steps, top_k, skill_queue, steps, stagnant_cycles,
          plan, pc, history, call_in, call_out, progress_levels_done, progress_calls,
          runs, _thread, _worker, _progress_timer, workers, ui_events, ui_pc, signals>>

ServiceVars == <<runs, _thread, _worker, _progress_timer, workers, ui_events, ui_pc, signals>>

\* PlanService.__init__, before any request
NoService ==
    /\ runs = 0
    /\ _thread = 0
    /\ _worker = 0
    /\ _progress_timer = FALSE
    /\ workers = <<>>
    /\ ui_events = <<>>
    /\ ui_pc = "idle"
    /\ signals = <<>>

(***************************************************************************)
(* Bounds of the model                                                     *)
(***************************************************************************)
MaxSteps == 4        \* largest max_steps passed to plan()
MaxGain == 2         \* largest target_level - current_level in a profile
MaxCrafts == 3       \* largest craft count passed to a direct expansion
MaxChain == 13       \* longest acyclic chain of intermediate items
MaxLevel == 8        \* largest level passed to a direct call of the XP model

(***************************************************************************)
(* Program constants                                                       *)
(***************************************************************************)
DepthCeiling == 12      \* helper(): depth > 12
FallbackXp == 1000      \* _xp_to_next_level(): last resort
DefaultLevel == 1       \* self.cur_level.get(skill, 1)
ExpOverflow == 1177     \* success_chance(): math.exp(-z) raises OverflowError once
                        \* difficulty - level reaches it (0.606 * (1177 - 5.26) > 709.78)

\* a success chance of 1.0
ChanceUnit == 10 * 100

XpUnit == ChanceUnit * 2

Max(a, b) == IF a >= b THEN a ELSE b
Min(a, b) == IF a <= b THEN a ELSE b
\* a faulty rounding (floor instead of math.ceil), to test the sensitivity of C8
FloorDiv(a, b) == a \div b

CeilDiv(a, b) == IF a <= 0 THEN 0 ELSE (a + b - 1) \div b

(***************************************************************************)
(* Game data (schemas.Recipe, GameData).  RecipeBook is the universe of    *)
(* recipes a data bundle of the model may hold; `recipes` selects the      *)
(* ones loaded.  A recipe is named by its index in RecipeBook.             *)
(*   station        Recipe.station ("" = None)                             *)
(*   crafters       g.recipe_crafters[key]                                 *)
(*   unlock_suffix  key[len("recipe_item_unlock_"):] when the key starts   *)
(*                  with "recipe_item_unlock_crafter_", else ""            *)
(*   key_crafters   the crafter keys that occur in such a key              *)
(***************************************************************************)
Rcp(key, is_dev, skill, unlock_at, difficulty, ingredients, outputs, crafters, grants_xp) ==
    [key |-> key, is_dev |-> is_dev, skill |-> skill, unlock_at |-> unlock_at,
     difficulty |-> difficulty, xp_multiplier |-> 1, ingredients |-> ingredients,
     outputs |-> outputs, station |-> "", crafters |-> crafters,
     grants_xp |-> grants_xp, unlock_suffix |-> "", key_crafters |-> {}]

ChainNames == <<"c01", "c02", "c03", "c04", "c05", "c06", "c07", "c08", "c09", "c10",
                "c11", "c12", "c13", "c14", "c15", "c16", "c17", "c18">>

\* chain recipe k makes one ChainNames[k] out of one ChainNames[k+1] and gives no XP; the
\* first one below the depth ceiling needs crafter_x
ChainRecipe(k) ==
    Rcp("recipe_" \o ChainNames[k], FALSE, "skill_a", 0, 1, << <<ChainNames[k + 1], 1>> >>,
        << <<ChainNames[k], 1>> >>, IF k = DepthCeiling + 1 THEN <<"crafter_x">> ELSE <<>>, FALSE)

BaseBook == <<
    Rcp("recipe_ring", FALSE, "skill_a", 0, 3, << <<"ore", 1>> >>, << <<"ring", 1>> >>, <<>>, TRUE),
    Rcp("recipe_mash", FALSE, "skill_a", 0, 0, << <<"ore", 1>> >>, <<>>, <<>>, TRUE),
    Rcp("recipe_smelt", FALSE, "skill_a", 0, 1, << <<"ore", 2>> >>, << <<"ingot", 3>> >>, <<>>, FALSE),
    Rcp("recipe_devsmelt", TRUE, "skill_a", 0, 0, << <<"gem", 1>> >>, << <<"ingot", 1>> >>, <<>>, TRUE),
    Rcp("recipe_hilt", FALSE, "skill_a", 0, 2, << <<"ingot", 1>> >>, << <<"hilt", 1>> >>, <<>>, TRUE),
    Rcp("recipe_sword", FALSE, "skill_a", 1, 4, << <<"ingot", 2>>, <<"hilt", 1>> >>,
        << <<"sword", 1>> >>, <<"crafter_x">>, TRUE),
    [Rcp("recipe_item_unlock_crafter_x", FALSE, "skill_a", 2, 2, << <<"ingot", 1>> >>,
         << <<"crafter_x", 1>> >>, <<>>, TRUE)
        EXCEPT !.unlock_suffix = "crafter_x", !.key_crafters = {"crafter_x"}],
    Rcp("recipe_plank", FALSE, "skill_b", 0, 3, << <<"wood", 1>> >>, << <<"plank", 2>> >>, <<>>, TRUE),
    Rcp("recipe_chair", FALSE, "skill_a", 0, 2, << <<"plank", 3>> >>, << <<"chair", 1>> >>, <<>>, TRUE),
    Rcp("recipe_loop", FALSE, "skill_a", 0, 1, << <<"gear", 2>>, <<"ore", 1>> >>,
        << <<"gear", 1>> >>, <<>>, TRUE),
    Rcp("recipe_clock", FALSE, "skill_a", 0, 2, << <<"gear", 3>> >>, << <<"clock", 1>> >>, <<>>, TRUE),
    [Rcp("recipe_item_unlock_crafter_y", FALSE, "skill_b", 1, 1, << <<"plank", 1>> >>,
         << <<"crafter_y", 1>> >>, <<>>, TRUE)
        EXCEPT !.unlock_suffix = "crafter_y", !.key_crafters = {"crafter_y"},
               !.station = "crafter_x"],
    Rcp("recipe_armor", FALSE, "skill_a", 3, 5, << <<"ingot", 4>> >>, << <<"armor", 1>> >>,
        <<"crafter_y">>, TRUE),
    Rcp("recipe_crate", FALSE, "skill_b", 0, 2, << <<"ingot", 1>> >>, << <<"crate", 1>> >>, <<>>, TRUE),
    Rcp("recipe_charm", FALSE, "skill_a", 0, 3, << <<"relic_dust", 1>> >>, << <<"charm", 1>> >>, <<>>, TRUE),
    Rcp("recipe_tower", FALSE, "skill_a", 0, 1, << <<"c01", 1>> >>, << <<"tower", 1>> >>, <<>>, TRUE),
    Rcp("recipe_board", FALSE, "skill_b", 2, 3, << <<"wood", 1>> >>, << <<"board", 1>> >>, <<>>, TRUE),
    Rcp("recipe_bench", FALSE, "skill_a", 0, 2, << <<"board", 2>> >>, << <<"bench", 1>> >>, <<>>, TRUE),
    [Rcp("recipe_item_unlock_crafter_x_dev", TRUE, "skill_a", 0, 0, << <<"gem", 1>> >>,
         << <<"crafter_x", 1>> >>, <<>>, TRUE)
        EXCEPT !.unlock_suffix = "crafter_x_dev", !.key_crafters = {"crafter_x"}],
    Rcp("recipe_polish", FALSE, "skill_a", 0, 1, << <<"hilt", 1>> >>, << <<"grip", 1>> >>, <<>>, FALSE),
    Rcp("recipe_blade", FALSE, "skill_a", 0, 2, << <<"sword", 1>> >>, << <<"blade", 1>> >>, <<>>, TRUE),
    [Rcp("recipe_nail", FALSE, "skill_a", 0, 1, << <<"ore", 2>> >>, << <<"nail", 1>> >>, <<>>, TRUE)
        EXCEPT !.station = "crafter_x"],
    [Rcp("recipe_rivet", FALSE, "skill_a", 0, 1, << <<"ore", 1>> >>, << <<"rivet", 1>> >>, <<>>, FALSE)
        EXCEPT !.station = "crafter_y"],
    Rcp("recipe_glue", FALSE, "skill_c", 3, 1, << <<"ore", 1>> >>, << <<"glue", 1>> >>, <<>>, TRUE),
    Rcp("recipe_shelf", FALSE, "skill_a", 0, 2, << <<"glue", 1>>, <<"plank", 1>> >>,
        << <<"shelf", 1>> >>, <<>>, TRUE),
    Rcp("recipe_wire_a", FALSE, "skill_a", 2, 2, << <<"ore", 1>> >>, << <<"wire", 1>> >>, <<>>, TRUE),
    Rcp("recipe_wire_b", FALSE, "skill_b", 0, 1, << <<"wood", 1>> >>, << <<"wire", 2>> >>,
        <<"crafter_y">>, TRUE),
    Rcp("recipe_coil", FALSE, "skill_a", 0, 1, << <<"wire", 2>> >>, << <<"coil", 1>> >>, <<>>, TRUE),
    Rcp("recipe_rod", FALSE, "skill_a", 0, 1, << <<"ore", 1>> >>, << <<"rod", 3>> >>, <<>>, TRUE),
    Rcp("recipe_cage", FALSE, "skill_a", 0, 2, << <<"rod", 1>> >>, << <<"cage", 1>> >>, <<>>, TRUE)
  >>

RecipeBook == BaseBook \o [k \in 1..(MaxChain) |-> ChainRecipe(k)]

RecipeByKey(key) == CHOOSE i \in 1..Len(BaseBook) : BaseBook[i].key = key
RING == RecipeByKey("recipe_ring")
MASH == RecipeByKey("recipe_mash")
SMELT == RecipeByKey("recipe_smelt")
DEVSMELT == RecipeByKey("recipe_devsmelt")
HILT == RecipeByKey("recipe_hilt")
SWORD == RecipeByKey("recipe_sword")
UNLOCK_X == RecipeByKey("recipe_item_unlock_crafter_x")
PLANK == RecipeByKey("recipe_plank")
CHAIR == RecipeByKey("recipe_chair")
LOOP == RecipeByKey("recipe_loop")
CLOCK == RecipeByKey("recipe_clock")
UNLOCK_Y == RecipeByKey("recipe_item_unlock_crafter_y")
ARMOR == RecipeByKey("recipe_armor")
CRATE == RecipeByKey("recipe_crate")
CHARM == RecipeByKey("recipe_charm")
TOWER == RecipeByKey("recipe_tower")
BOARD == RecipeByKey("recipe_board")
BENCH == RecipeByKey("recipe_bench")
DEVUNLOCK_X == RecipeByKey("recipe_item_unlock_crafter_x_dev")
POLISH == RecipeByKey("recipe_polish")
BLADE == RecipeByKey("recipe_blade")
NAIL == RecipeByKey("recipe_nail")
RIVET == RecipeByKey("recipe_rivet")
GLUE == RecipeByKey("recipe_glue")
SHELF == RecipeByKey("recipe_shelf")
WIRE_A == RecipeByKey("recipe_wire_a")
WIRE_B == RecipeByKey("recipe_wire_b")
COIL == RecipeByKey("recipe_coil")
ROD == RecipeByKey("recipe_rod")
CAGE == RecipeByKey("recipe_cage")
ChainIdx(k) == Len(BaseBook) + k

Skills == {"skill_a", "skill_b"}
Crafters == {"crafter_x", "crafter_y"}

\* g.crafter_tiers
crafter_tiers(ck) == IF ck = "crafter_x" THEN 1 ELSE IF ck = "crafter_y" THEN 2 ELSE 0

\* items flagged raw or relic by their metadata or by their key
RawItems == {"ore", "wood", "relic_dust"}

\* items flagged relic by their metadata or by their key
RelicItems == {"relic_dust"}

Items == {"ore", "wood", "gem", "ingot", "hilt", "ring", "sword", "plank", "chair", "gear",
          "clock", "armor", "tower", "relic_dust", "charm", "crate", "board", "bench", "grip", "blade", "nail", "rivet",
          "glue", "shelf", "wire", "coil", "rod", "cage",
          "crafter_x", "crafter_y"}
         \cup {ChainNames[k] : k \in 1..(MaxChain + 1)}

SeqToSet(s) == {s[i] : i \in 1..Len(s)}

\* the sorted sequence of the members of a finite set of integers
RECURSIVE SetToSortedSeq(_)
SetToSortedSeq(S) ==
    IF S = {} THEN <<>>
    ELSE LET m == CHOOSE x \in S : \A y \in S : x <= y
         IN <<m>> \o SetToSortedSeq(S \ {m})

recipe_is_dev(r) == book[r].is_dev
recipe_skill(r) == book[r].skill
recipe_unlock_at(r) == book[r].unlock_at
recipe_difficulty(r) == book[r].difficulty
recipe_xpmult(r) == book[r].xp_multiplier
recipe_station(r) == book[r].station
recipe_ingredients(r) == book[r].ingredients
recipe_outputs(r) == book[r].outputs
recipe_grants_xp(r) == book[r].grants_xp

\* the loaded recipes whose skill is `skill`, in file order
recipes_for_skill(skill) == SelectSeq(recipes, LAMBDA r : recipe_skill(r) = skill)

(***************************************************************************)
(* XP/outcome model (xp_model.py).  Chances are in 1/ChanceUnit, XP        *)
(* averages in whole XP, expected XP in 1/ChanceUnit XP.                   *)
(***************************************************************************)
\* round(ChanceUnit / (1 + exp(-0.606 * (5.26 - d)))) for d = difficulty - level = 1..10;
\* for d >= 11 the logistic value is below the 0.04 floor
Logistic == <<930, 878, 797, 682, 539, 390, 258, 160, 94, 54>>

tier_bucket(difficulty) ==
    IF difficulty <= 24 THEN "low" ELSE IF difficulty <= 40 THEN "mid" ELSE "high"

TIER_CONST(bucket) ==
    CASE bucket = "low" -> [A0 |-> 112, B0 |-> 12, C0 |-> 15, slope_trivial |-> 3, failure_base |-> 35]
      [] bucket = "mid" -> [A0 |-> 110, B0 |-> 12, C0 |-> 15, slope_trivial |-> 3, failure_base |-> 38]
      [] OTHER -> [A0 |-> 108, B0 |-> 12, C0 |-> 15, slope_trivial |-> 3, failure_base |-> 40]

\* success_chance raises OverflowError (math range error) instead of returning
success_chance_raises(level, difficulty) ==
    level < difficulty /\ difficulty - level >= ExpOverflow

\* the value success_chance returns, when it returns
success_chance(level, difficulty) ==
    IF level >= difficulty THEN ChanceUnit
    ELSE LET d == difficulty - level
             p == IF d <= Len(Logistic) THEN Logistic[d] ELSE 0
         IN Max((4 * ChanceUnit) \div 100, Min(ChanceUnit, p))

\* SKILL_SCALE in percent; the skills of the model are not in SKILL_SCALE
skill_scale(skill) == IF skill = "skill_winery_and_brewing" THEN 88 ELSE 100

xp_success_avg(level, difficulty, xp_mult, skill) ==
    LET const == TIER_CONST(tier_bucket(difficulty))
        base == IF level < difficulty
                THEN (const.A0 + const.B0 * (difficulty - level)) * xp_mult
                ELSE Max(0, (difficulty + const.C0) - const.slope_trivial * (level - difficulty))
    IN (base * skill_scale(skill)) \div 100

\* defined only for level < difficulty (the source returns NaN otherwise)
xp_failure_avg(level, difficulty, unlock, xp_mult, skill) ==
    LET const == TIER_CONST(tier_bucket(difficulty))
        base == const.failure_base + Max(0, level - unlock)
    IN (Min(50, Max(20, base)) * xp_mult * skill_scale(skill)) \div 100

\* in 1/ChanceUnit XP
xp_expected(level, difficulty, unlock, xp_mult, skill) ==
    LET p == success_chance(level, difficulty)
        xs == xp_success_avg(level, difficulty, xp_mult, skill)
    IN IF level >= difficulty THEN ChanceUnit * xs
       ELSE p * xs + (ChanceUnit - p) * xp_failure_avg(level, difficulty, unlock, xp_mult, skill)

(***************************************************************************)
(* LevelPlanner: profile accessors                                         *)
(***************************************************************************)
\* self.xp_boost, doubled: 1.5 -> 3, 1.0 -> 2
xp_boost2 == IF premium_account THEN 3 ELSE 2

\* self.cur_level.get(skill, default)
LevelOf(skill, default) == IF skill \in DOMAIN cur_level THEN cur_level[skill] ELSE default

\* self.owned_crafter.get(ck, False)
Owned(ck) == ck \in DOMAIN owned_crafter /\ owned_crafter[ck]

NaN == -1

\* faulty version, to test the sensitivity of C12: the failure figure is not boosted
recipe_xp_stats_plain_failure(recipe, level, skill) ==
    LET diff == recipe_difficulty(recipe)
        unlock == recipe_unlock_at(recipe)
        xpm == recipe_xpmult(recipe)
    IN [chance |-> success_chance(level, diff),
        success |-> xp_success_avg(level, diff, xpm, skill) * ChanceUnit * xp_boost2,
        failure |-> IF level >= diff THEN NaN
                    ELSE xp_failure_avg(level, diff, unlock, xpm, skill) * ChanceUnit * 2,
        expected |-> xp_expected(level, diff, unlock, xpm, skill) * xp_boost2]

\* _recipe_xp_stats with no per-recipe CSV table loaded: all XP figures in 1/XpUnit XP
recipe_xp_stats(recipe, level, skill) ==
    LET diff == recipe_difficulty(recipe)
        unlock == recipe_unlock_at(recipe)
        xpm == recipe_xpmult(recipe)
    IN [chance |-> success_chance(level, diff),
        success |-> xp_success_avg(level, diff, xpm, skill) * ChanceUnit * xp_boost2,
        failure |-> IF level >= diff THEN NaN
                    ELSE xp_failure_avg(level, diff, unlock, xpm, skill) * ChanceUnit * xp_boost2,
        expected |-> xp_expected(level, diff, unlock, xpm, skill) * xp_boost2]

\* skills._normalize_skill_key on the skill keys of the model: lowercase, and only
\* the letters and digits kept
normalize_skill_key(key) ==
    CASE key \in {"skill_a", "Skill A"} -> "skilla"
      [] key \in {"skill_b", "Skill B"} -> "skillb"
      [] key \in {"skill_c"} -> "skillc"
      [] OTHER -> key

\* skills.get_skill_table: the table under the key itself, else one under a key with
\* the same normal form, else None (found = FALSE); a SkillXPTable object is true
\* whatever its xp_to_level holds
get_skill_table(skills, skill_key) ==
    LET alike == {key \in DOMAIN skills : normalize_skill_key(key) = normalize_skill_key(skill_key)}
    IN IF skill_key \in DOMAIN skills
       THEN [found |-> TRUE, xp_to_level |-> skills[skill_key]]
       ELSE IF alike # {}
       THEN [found |-> TRUE, xp_to_level |-> skills[CHOOSE key \in alike : TRUE]]
       ELSE [found |-> FALSE, xp_to_level |-> <<>>]

\* _xp_to_next_level, in whole XP
xp_to_next_level(skill, level) ==
    LET table == get_skill_table(skills_table, skill)
    IN IF table.found
       THEN LET xp_seq == table.xp_to_level
            IN IF level < Len(xp_seq) THEN xp_seq[level + 1] ELSE 0
       ELSE FallbackXp

(***************************************************************************)
(* Crafting graph index and producer selection                             *)
(***************************************************************************)
OutputKeys(r) == {recipe_outputs(r)[i][1] : i \in 1..Len(recipe_outputs(r))}

OutputQty(r, item) ==
    LET outs == recipe_outputs(r)
        hits == {i \in 1..Len(outs) : outs[i][1] = item}
    IN IF hits = {} THEN 0 ELSE outs[CHOOSE i \in hits : TRUE][2]

RECURSIVE index_items_from(_, _)
index_items_from(rs, item) ==
    IF rs = <<>> THEN <<>>
    ELSE LET r == Head(rs)
             rest == index_items_from(Tail(rs), item)
         IN IF recipe_is_dev(r) THEN rest
            ELSE IF item \in OutputKeys(r) THEN <<r, r>> \o rest  \* both output loops append r
            ELSE rest

\* self.producers.get(item, []) as built by _index_items
producers(item) == index_items_from(recipes, item)

\* list.sort (stable): element i lands after the elements that are smaller and after
\* the equal ones that came before it
StableSort(s, Less(_, _)) ==
    LET rank(i) == 1 + Cardinality({j \in 1..Len(s) :
                        Less(s[j], s[i]) \/ (~Less(s[i], s[j]) /\ j < i)})
    IN [p \in 1..Len(s) |-> s[CHOOSE i \in 1..Len(s) : rank(i) = p]]

RECURSIVE Dedup(_)
Dedup(s) ==
    IF s = <<>> THEN <<>>
    ELSE LET front == Dedup(SubSeq(s, 1, Len(s) - 1))
         IN IF s[Len(s)] \in SeqToSet(front) THEN front ELSE Append(front, s[Len(s)])

recipe_crafter_keys(recipe) ==
    Dedup((IF recipe_station(recipe) # "" THEN <<recipe_station(recipe)>> ELSE <<>>)
          \o book[recipe].crafters)

missing_crafters_for_recipe(recipe) ==
    LET keys == recipe_crafter_keys(recipe)
        sfx == book[recipe].unlock_suffix
        ignore == IF sfx # "" THEN {"crafter_" \o sfx} ELSE {}
        owned == \E i \in 1..Len(keys) : keys[i] \notin ignore /\ Owned(keys[i])
    IN IF owned THEN <<>>
       ELSE SelectSeq(keys, LAMBDA ck : ck \notin ignore /\ ~Owned(ck))

has_crafter_for_recipe(recipe) ==
    LET keys == recipe_crafter_keys(recipe)
    IN keys = <<>> \/ \E i \in 1..Len(keys) : Owned(keys[i])

recipe_unlocked(recipe, skill_level) == skill_level >= recipe_unlock_at(recipe)

ProducerLess(a, b) ==
    \/ recipe_difficulty(a) < recipe_difficulty(b)
    \/ recipe_difficulty(a) = recipe_difficulty(b) /\ recipe_unlock_at(a) < recipe_unlock_at(b)

\* a faulty selection that falls back on the first candidate without looking at its equipment
choose_from_silent(candidates) ==
    LET ok == {i \in 1..Len(candidates) :
                  /\ missing_crafters_for_recipe(candidates[i]) = <<>>
                  /\ recipe_unlocked(candidates[i], LevelOf(recipe_skill(candidates[i]), 0))}
    IN IF candidates = <<>> THEN [recipe |-> 0, err |-> ""]
       ELSE IF ok # {}
       THEN [recipe |-> candidates[CHOOSE i \in ok : \A j \in ok : i <= j], err |-> ""]
       ELSE [recipe |-> candidates[1], err |-> ""]

\* lines 358-369: the first candidate that is equipped and unlocked, else the first one
choose_from(candidates) ==
    LET ok == {i \in 1..Len(candidates) :
                  /\ missing_crafters_for_recipe(candidates[i]) = <<>>
                  /\ recipe_unlocked(candidates[i], LevelOf(recipe_skill(candidates[i]), 0))}
    IN IF candidates = <<>> THEN [recipe |-> 0, err |-> ""]
       ELSE IF ok # {}
       THEN [recipe |-> candidates[CHOOSE i \in ok : \A j \in ok : i <= j], err |-> ""]
       ELSE IF missing_crafters_for_recipe(candidates[1]) # <<>>
       THEN [recipe |-> 0, err |-> missing_crafters_for_recipe(candidates[1])[1]]
       ELSE [recipe |-> candidates[1], err |-> ""]

\* _choose_producer: [recipe |-> index or 0 for None, err |-> key carried by a raised
\* MissingCrafterError or ""]
choose_producer(item_key) ==
    choose_from(StableSort(SelectSeq(producers(item_key), LAMBDA r : ~recipe_is_dev(r)),
                           ProducerLess))

is_leaf_item(item_key) == producers(item_key) = <<>>

is_base_material(item_key) == item_key \in RawItems \/ is_leaf_item(item_key)

(***************************************************************************)
(* Recipe expander (_expand_recipe_full).  The nested helper's closure     *)
(* state (base_totals, stock, craft_steps, lines) is threaded through as a *)
(* record; err carries a raised MissingCrafterError ("" = none), which     *)
(* makes every later step of the walk a no-op, as the exception unwinds    *)
(* the recursion.  max_depth (largest depth helper was entered with),      *)
(* reused (some requirement was served from stock) and overbanked (the     *)
(* stock of an item once held a whole craft's output) are history fields.  *)
(***************************************************************************)
NoTotals == [i \in Items |-> 0]

ExpandStart ==
    [base_totals |-> NoTotals, stock |-> NoTotals, craft_steps |-> <<>>, lines |-> <<>>,
     err |-> "", max_depth |-> 0, reused |-> FALSE, overbanked |-> FALSE]

\* a faulty gathering that overwrites the total of the item instead of adding to it, to
\* test the sensitivity of C9
Gather_overwrite(st, item_key, qty, depth) ==
    [st EXCEPT !.base_totals[item_key] = qty,
               !.lines = Append(@, <<"gather", item_key, qty, depth>>)]

Gather(st, item_key, qty, depth) ==
    [st EXCEPT !.base_totals[item_key] = @ + qty,
               !.lines = Append(@, <<"gather", item_key, qty, depth>>)]

RECURSIVE helper(_, _, _, _, _)
RECURSIVE helper_each(_, _, _, _, _)

\* a faulty trail that forgets the item being crafted, to test the sensitivity of C10
new_trail_same(trail, item_key) == trail

\* lines 423-424: new_trail = set(trail); new_trail.add(item_key)
new_trail(trail, item_key) == trail \cup {item_key}

\* a faulty crafting that records the craft before it expands the ingredients
helper_craft_parent_first(item_key, qty, depth, trail, st1, chosen) ==
    LET producer == chosen.recipe
        outputs == recipe_outputs(producer)
        out_qty == IF item_key \in OutputKeys(producer) THEN OutputQty(producer, item_key)
                   ELSE IF outputs # <<>> THEN outputs[1][2] ELSE 0
        per_craft == Max(1, IF out_qty = 0 THEN 1 ELSE out_qty)
        crafts_needed == CeilDiv(qty, per_craft)
        recorded == [st1 EXCEPT !.craft_steps = Append(@, <<producer, crafts_needed,
                                                              recipe_skill(producer)>>),
                                !.lines = Append(@, <<"craft", item_key, crafts_needed, depth>>)]
        st2 == helper_each(recipe_ingredients(producer), crafts_needed, depth + 1,
                           new_trail(trail, item_key), recorded)
    IN CASE chosen.err # "" -> [st1 EXCEPT !.err = chosen.err]
         [] chosen.err = "" /\ producer = 0 -> Gather(st1, item_key, qty, depth)
         [] chosen.err = "" /\ producer # 0 /\ st2.err # "" -> st2
         [] OTHER ->
            [st2 EXCEPT !.stock[item_key] = @ + Max(0, crafts_needed * per_craft - qty)]

\* a faulty crafting that banks no surplus
helper_craft_no_bank(item_key, qty, depth, trail, st1, chosen) ==
    LET producer == chosen.recipe
        outputs == recipe_outputs(producer)
        out_qty == IF item_key \in OutputKeys(producer) THEN OutputQty(producer, item_key)
                   ELSE IF outputs # <<>> THEN outputs[1][2] ELSE 0
        crafts_needed == CeilDiv(qty, Max(1, IF out_qty = 0 THEN 1 ELSE out_qty))
        st2 == helper_each(recipe_ingredients(producer), crafts_needed, depth + 1,
                           new_trail(trail, item_key), st1)
    IN CASE chosen.err # "" -> [st1 EXCEPT !.err = chosen.err]
         [] chosen.err = "" /\ producer = 0 -> Gather(st1, item_key, qty, depth)
         [] chosen.err = "" /\ producer # 0 /\ st2.err # "" -> st2
         [] OTHER ->
            [st2 EXCEPT !.craft_steps = Append(@, <<producer, crafts_needed,
                                                    recipe_skill(producer)>>),
                        !.lines = Append(@, <<"craft", item_key, crafts_needed, depth>>)]

\* lines 405-437: the item is crafted by the producer chosen for it, whose ingredients
\* are expanded first; it is gathered when no producer is chosen
helper_craft(item_key, qty, depth, trail, st1, chosen) ==
    LET producer == chosen.recipe
        outputs == recipe_outputs(producer)
        out_qty == IF item_key \in OutputKeys(producer) THEN OutputQty(producer, item_key)
                   ELSE IF outputs # <<>> THEN outputs[1][2] ELSE 0
        per_craft == Max(1, IF out_qty = 0 THEN 1 ELSE out_qty)
        crafts_needed == CeilDiv(qty, per_craft)
        actual_yield == crafts_needed * per_craft
        extra == Max(0, actual_yield - qty)
        prod_skill == recipe_skill(producer)
        st2 == helper_each(recipe_ingredients(producer), crafts_needed, depth + 1,
                           new_trail(trail, item_key), st1)
    IN CASE chosen.err # "" -> [st1 EXCEPT !.err = chosen.err]
         [] chosen.err = "" /\ producer = 0 -> Gather(st1, item_key, qty, depth)
         [] chosen.err = "" /\ producer # 0 /\ st2.err # "" -> st2
         [] OTHER ->
            [st2 EXCEPT !.craft_steps = Append(@, <<producer, crafts_needed, prod_skill>>),
                        !.lines = Append(@, <<"craft", item_key, crafts_needed, depth>>),
                        !.stock[item_key] = @ + extra,
                        !.overbanked = @ \/ st2.stock[item_key] + extra >= per_craft]

\* for sub_key, sub_qty in ingredients: helper(sub_key, sub_qty * mult, depth, trail)
helper_each(ingredients, mult, depth, trail, st) ==
    IF ingredients = <<>> THEN st
    ELSE helper_each(Tail(ingredients), mult, depth, trail,
                     helper(Head(ingredients)[1], Head(ingredients)[2] * mult, depth, trail, st))

\* lines 378-437.  The arms of the CASE are the returns of the source, in its order: each
\* guard holds only when the ones before it fail
helper(item_key, qty0, depth, trail, st0) ==
    LET st == [st0 EXCEPT !.max_depth = Max(@, depth)]
        available == st0.stock[item_key]
        raised == st0.err # ""
        nothing == ~raised /\ qty0 <= 0
        cycle == ~raised /\ qty0 > 0 /\ (item_key \in trail \/ depth > DepthCeiling)
        walk == ~raised /\ qty0 > 0 /\ ~(item_key \in trail \/ depth > DepthCeiling)
        served == walk /\ available # 0 /\ available >= qty0
        qty == IF available # 0 THEN qty0 - available ELSE qty0
        st1 == IF available # 0 THEN [st EXCEPT !.stock[item_key] = 0, !.reused = TRUE] ELSE st
        gathered == walk /\ ~served
                    /\ (is_base_material(item_key) \/ producers(item_key) = <<>>)
    IN CASE raised -> st0
         [] nothing -> st
         [] cycle -> [st EXCEPT !.lines = Append(@, <<"cycle", item_key, qty0, depth>>),
                                !.base_totals[item_key] = @ + qty0]
         [] served -> [st EXCEPT !.stock[item_key] = available - qty0, !.reused = TRUE]
         [] gathered -> Gather(st1, item_key, qty, depth)
         [] OTHER -> helper_craft(item_key, qty, depth, trail, st1, choose_producer(item_key))

\* lines 442-445
expand_final(recipe, crafts, target_skill, st) ==
    IF st.err # "" THEN st
    ELSE [st EXCEPT !.craft_steps = Append(@, <<recipe, crafts, target_skill>>),
                    !.lines = Append(@, <<"final", "", crafts, 0>>)]

\* _expand_recipe_full: materials is base_totals (0 = no entry), craft_steps the ordered
\* (recipe, count, skill) list
expand_recipe_full(recipe, crafts, target_skill) ==
    expand_final(recipe, crafts, target_skill,
                 helper_each(recipe_ingredients(recipe), crafts, 1, {},
                             [ExpandStart EXCEPT !.lines = << <<"root", "", crafts, 0>> >>]))

\* sorted(base_totals.items()): the (item, quantity) entries of the totals
MaterialsList(base_totals) == {<<i, base_totals[i]>> : i \in {j \in Items : base_totals[j] # 0}}

(***************************************************************************)
(* Cross-skill gaps (_dependency_gaps): [gaps |-> sequence of              *)
(* <<skill, need_level, item, delta>>, err |-> raised MissingCrafterError] *)
(***************************************************************************)
RECURSIVE gaps_helper(_, _, _, _)
RECURSIVE gaps_each(_, _, _, _)

\* lines 456-469: the gap recorded for a producer of another skill, or the walk going on
\* through the ingredients of a producer of the target skill
gaps_via(item_key, trail, target_skill, acc, chosen) ==
    LET producer == chosen.recipe
        skill == recipe_skill(producer)
        need_level == Max(recipe_unlock_at(producer), recipe_difficulty(producer))
        delta == need_level - LevelOf(skill, DefaultLevel)
        found == chosen.err = "" /\ producer # 0
    IN CASE chosen.err # "" -> [acc EXCEPT !.err = chosen.err]
         [] found /\ skill # target_skill /\ delta > 0 ->
            [acc EXCEPT !.gaps = Append(@, <<skill, need_level, item_key, delta>>)]
         [] found /\ skill = target_skill ->
            gaps_each(recipe_ingredients(producer), trail \cup {item_key}, target_skill, acc)
         [] OTHER -> acc

gaps_each(ingredients, trail, target_skill, acc) ==
    IF ingredients = <<>> THEN acc
    ELSE gaps_each(Tail(ingredients), trail, target_skill,
                   gaps_helper(Head(ingredients)[1], trail, target_skill, acc))

gaps_helper(item_key, trail, target_skill, acc) ==
    IF acc.err # "" \/ item_key \in trail \/ is_base_material(item_key) THEN acc
    ELSE gaps_via(item_key, trail, target_skill, acc, choose_producer(item_key))

dependency_gaps(recipe, crafts, target_skill) ==
    gaps_each(recipe_ingredients(recipe), {}, target_skill, [gaps |-> <<>>, err |-> ""])

(***************************************************************************)
(* XP of an expansion, rarity and burden                                   *)
(***************************************************************************)
RECURSIVE xp_from_crafts(_, _, _)
xp_from_crafts(craft_steps, level, skill) ==
    IF craft_steps = <<>> THEN 0
    ELSE LET rec == Head(craft_steps)[1]
             count == Head(craft_steps)[2]
             rec_skill == Head(craft_steps)[3]
             rest == xp_from_crafts(Tail(craft_steps), level, skill)
         IN IF rec_skill # skill THEN rest
            ELSE IF ~recipe_grants_xp(rec) THEN rest
            ELSE count * recipe_xp_stats(rec, level, rec_skill).expected + rest

\* self.usage_count.get(item, 0)
usage_count(item_key) ==
    Cardinality({i \in 1..Len(recipes) :
        /\ ~recipe_is_dev(recipes[i])
        /\ \E n \in 1..Len(recipe_ingredients(recipes[i])) :
               recipe_ingredients(recipes[i])[n][1] = item_key})

RarityUnit == 6 * 100

\* _rarity_score for items without tier or item-level metadata, in 1/RarityUnit;
\* exact for the depths the planner uses (depth = 0)
rarity_score(item_key, depth) ==
    LET use == usage_count(item_key)
        r0 == Max(RarityUnit \div 5, RarityUnit \div (1 + use))
        r1 == IF is_leaf_item(item_key) THEN r0 \div 2 ELSE r0
        r2 == IF item_key \in RawItems THEN (r1 * 6) \div 10 ELSE r1
    IN (r2 * (2 + Min(depth, 2))) \div 2

RECURSIVE burden_sum(_, _)
burden_sum(ingredients, crafts) ==
    IF ingredients = <<>> THEN 0
    ELSE Head(ingredients)[2] * crafts * rarity_score(Head(ingredients)[1], 0)
         + burden_sum(Tail(ingredients), crafts)

\* _material_burden(recipe, crafts)[0], in 1/RarityUnit
material_burden(recipe, crafts) == burden_sum(recipe_ingredients(recipe), crafts)

(***************************************************************************)
(* Option ranker (_best_options_for_level)                                 *)
(***************************************************************************)
contains_relic_materials(base_totals) == \E i \in RelicItems : base_totals[i] # 0

contains_disabled_materials(base_totals) == \E i \in material_config : base_totals[i] # 0

feasible_now(recipe) ==
    /\ has_crafter_for_recipe(recipe)
    /\ recipe_unlocked(recipe, LevelOf(recipe_skill(recipe), 0))

\* _summarize_crafts: one entry per (recipe, skill), in order of first appearance
summarize_crafts(craft_steps) ==
    LET keys == Dedup([i \in 1..Len(craft_steps) |-> <<craft_steps[i][1], craft_steps[i][3]>>])
        RECURSIVE total(_, _)
        total(k, n) == IF n = 0 THEN 0
                       ELSE (IF <<craft_steps[n][1], craft_steps[n][3]>> = k
                             THEN craft_steps[n][2] ELSE 0) + total(k, n - 1)
    IN [i \in 1..Len(keys) |->
           [recipe |-> keys[i][1], skill |-> keys[i][2], count |-> total(keys[i], Len(craft_steps))]]

\* lines 721-726: the candidate entry of a recipe whose unit expansion gives XP
unit_scored(r, xpc_unit) ==
    IF xpc_unit <= 0 THEN [kind |-> "skip"]
    ELSE [kind |-> "cand", r |-> r, xpc_unit |-> xpc_unit, burden_one |-> material_burden(r, 1)]

\* lines 712-721
unit_expanded(r, skill, level, unit) ==
    IF unit.err # "" THEN [kind |-> "missing", err |-> unit.err]
    ELSE IF avoid_relics /\ contains_relic_materials(unit.base_totals) THEN [kind |-> "skip"]
    ELSE unit_scored(r, xp_from_crafts(unit.craft_steps, level, skill))

\* faulty first loops, to test the sensitivity of C5, C6 and C7: each drops one filter
unit_candidate_any_xp(r, skill, level) ==
    IF recipe_is_dev(r) THEN [kind |-> "skip"]
    ELSE IF ~feasible_now(r) THEN [kind |-> "skip"]
    ELSE unit_expanded(r, skill, level, expand_recipe_full(r, 1, skill))

unit_candidate_unequipped(r, skill, level) ==
    IF recipe_is_dev(r) THEN [kind |-> "skip"]
    ELSE IF ~recipe_grants_xp(r) THEN [kind |-> "skip"]
    ELSE unit_expanded(r, skill, level, expand_recipe_full(r, 1, skill))

unit_candidate_dev(r, skill, level) ==
    IF ~recipe_grants_xp(r) THEN [kind |-> "skip"]
    ELSE IF ~feasible_now(r) THEN [kind |-> "skip"]
    ELSE unit_expanded(r, skill, level, expand_recipe_full(r, 1, skill))

\* the first loop of _best_options_for_level: what it does with one recipe of the skill.
\* kind "skip" (filtered out), "missing" (expansion raised, err = crafter), "cand"
unit_candidate(r, skill, level) ==
    IF recipe_is_dev(r) THEN [kind |-> "skip"]
    ELSE IF ~recipe_grants_xp(r) THEN [kind |-> "skip"]
    ELSE IF ~feasible_now(r) THEN [kind |-> "skip"]
    ELSE unit_expanded(r, skill, level, expand_recipe_full(r, 1, skill))

\* score(a) > score(b), with score = xpc_unit / (1 + burden_one)
ScoreGreater(a, b) ==
    a.xpc_unit * (RarityUnit + b.burden_one) > b.xpc_unit * (RarityUnit + a.burden_one)

\* a second loop that never looks at the gaps of a candidate
top_next_any_gap(c, crafts, skill, level, k, ignore_gap, acc, full, gaps) ==
    IF full.err # "" THEN [acc EXCEPT !.missing_seen = Append(@, full.err)]
    ELSE IF contains_disabled_materials(full.base_totals) THEN acc
    ELSE IF gaps.err # "" THEN [acc EXCEPT !.raised = gaps.err]
    ELSE [acc EXCEPT !.stop = (Len(acc.top) + 1 >= k),
                     !.top = Append(@,
                        [recipe_key |-> c.r, crafts |-> crafts, xp_per_craft |-> c.xpc_unit,
                         total_xp |-> xp_from_crafts(full.craft_steps, level, skill),
                         material_burden |-> c.burden_one * crafts,
                         materials |-> MaterialsList(full.base_totals),
                         craft_summary |-> summarize_crafts(full.craft_steps),
                         prereq_gaps |-> gaps.gaps])]

\* lines 734-764: what the second loop does with one candidate, given its full
\* expansion and its gaps; acc = [top, missing_seen, raised, stop]
top_next(c, crafts, skill, level, k, ignore_gap, acc, full, gaps) ==
    IF full.err # "" THEN [acc EXCEPT !.missing_seen = Append(@, full.err)]
    ELSE IF contains_disabled_materials(full.base_totals) THEN acc
    ELSE IF gaps.err # "" THEN [acc EXCEPT !.raised = gaps.err]
    ELSE IF (~ignore_gap) /\ max_cross_skill_gap >= 0
            /\ \E i \in 1..Len(gaps.gaps) : gaps.gaps[i][4] > max_cross_skill_gap
    THEN acc
    ELSE [acc EXCEPT !.stop = (Len(acc.top) + 1 >= k),
                     !.top = Append(@,
                        [recipe_key |-> c.r, crafts |-> crafts, xp_per_craft |-> c.xpc_unit,
                         total_xp |-> xp_from_crafts(full.craft_steps, level, skill),
                         material_burden |-> c.burden_one * crafts,
                         materials |-> MaterialsList(full.base_totals),
                         craft_summary |-> summarize_crafts(full.craft_steps),
                         prereq_gaps |-> gaps.gaps])]

\* the second loop over the sorted candidates
RECURSIVE top_loop(_, _, _, _, _, _)
top_loop(cands, skill, level, k, ignore_gap, acc) ==
    LET c == Head(cands)
        xp_needed == (xp_to_next_level(skill, level)
                      - (IF skill \in DOMAIN cur_xp THEN cur_xp[skill] ELSE 0)) * XpUnit
        crafts == Max(1, CeilDiv(xp_needed, c.xpc_unit))
    IN IF cands = <<>> \/ acc.stop \/ acc.raised # "" THEN acc
       ELSE top_loop(Tail(cands), skill, level, k, ignore_gap,
                     top_next(c, crafts, skill, level, k, ignore_gap, acc,
                              expand_recipe_full(c.r, crafts, skill),
                              dependency_gaps(c.r, crafts, skill)))

\* lines 765-767
best_result(res) ==
    [top |-> res.top,
     last_missing_crafter |-> IF res.missing_seen # <<>> THEN res.missing_seen[1] ELSE "",
     raised |-> res.raised]

\* lines 728-764: units[i] is what the first loop made of the i-th recipe of the skill
best_ranked(skill, level, k, ignore_gap, units) ==
    LET missing == SelectSeq(units, LAMBDA u : u.kind = "missing")
    IN best_result(top_loop(StableSort(SelectSeq(units, LAMBDA u : u.kind = "cand"), ScoreGreater),
                            skill, level, k, ignore_gap,
                            [top |-> <<>>, raised |-> "", stop |-> FALSE,
                             missing_seen |-> [i \in 1..Len(missing) |-> missing[i].err]]))

\* _best_options_for_level: [top |-> the options, last_missing_crafter |-> the value left
\* in self._last_missing_crafter, raised |-> MissingCrafterError escaping the call]
best_options_for_level(skill, level, k, ignore_gap) ==
    LET rs == recipes_for_skill(skill)
    IN best_ranked(skill, level, k, ignore_gap,
                   [i \in 1..Len(rs) |-> unit_candidate(rs[i], skill, level)])

(***************************************************************************)
(* Prerequisite resolver.  A resolver result is                            *)
(*   [found, step, owned_add, visited, raised]                             *)
(* found = FALSE stands for a None return; owned_add is the crafter the    *)
(* call marked owned ("" = none); raised a MissingCrafterError escaping.   *)
(***************************************************************************)
DefaultTopK == 3    \* _best_options_for_level(top_k: int = 3)

PlanStep(skill, from_level, to_level, options, note) ==
    [skill |-> skill, from_level |-> from_level, to_level |-> to_level,
     options |-> options, note |-> note]

NoStep == PlanStep("", 0, 0, <<>>, "")

NotFound(visited) ==
    [found |-> FALSE, step |-> NoStep, owned_add |-> "", visited |-> visited, raised |-> ""]

Found(step, owned_add, visited) ==
    [found |-> TRUE, step |-> step, owned_add |-> owned_add, visited |-> visited, raised |-> ""]

Raised(err, visited) ==
    [found |-> FALSE, step |-> NoStep, owned_add |-> "", visited |-> visited, raised |-> err]

\* lines 774-793
unlock_built(recipe, skill, level, full, gaps) ==
    LET none == full.err = "" /\ contains_disabled_materials(full.base_totals)
    IN [err |-> IF none THEN "" ELSE IF full.err # "" THEN full.err ELSE gaps.err,
        none |-> none,
        option |-> [recipe_key |-> recipe, crafts |-> 1,
                    xp_per_craft |-> xp_from_crafts(full.craft_steps, level, skill),
                    total_xp |-> xp_from_crafts(full.craft_steps, level, skill),
                    material_burden |-> material_burden(recipe, 1),
                    materials |-> MaterialsList(full.base_totals),
                    craft_summary |-> summarize_crafts(full.craft_steps),
                    prereq_gaps |-> gaps.gaps]]

\* _build_unlock_option(recipe): [option, none (returned None), err (raised)]
build_unlock_option(recipe) ==
    unlock_built(recipe, recipe_skill(recipe), LevelOf(recipe_skill(recipe), DefaultLevel),
                 expand_recipe_full(recipe, 1, recipe_skill(recipe)),
                 dependency_gaps(recipe, 1, recipe_skill(recipe)))

UnlockLess(a, b) == recipe_unlock_at(a) < recipe_unlock_at(b)

\* _crafter_unlock_recipes: Recipe has no output_item attribute, so only the key test
\* selects: the key starts with "recipe_item_unlock_crafter_" and crafter_key occurs in it
crafter_unlock_recipes(crafter_key) ==
    StableSort(SelectSeq(recipes, LAMBDA ur :
                   /\ ~recipe_is_dev(ur)
                   /\ book[ur].unlock_suffix # ""
                   /\ crafter_key \in book[ur].key_crafters),
               UnlockLess)

RECURSIVE plan_crafter_unlock_step(_, _, _, _)
RECURSIVE unlock_loop(_, _, _, _, _)

\* line 905 (continue) and the end of the loop body: the next unlock recipe
unlock_rest(unlockers, crafter_key, target_skill, current_level, inner) ==
    IF inner.found \/ inner.raised # "" THEN inner
    ELSE unlock_loop(Tail(unlockers), crafter_key, target_skill, current_level, inner.visited)

\* lines 899-914
unlock_try(unlockers, crafter_key, target_skill, current_level, visited, req_skill, built) ==
    IF built.err # ""
    THEN unlock_rest(unlockers, crafter_key, target_skill, current_level,
                     plan_crafter_unlock_step(built.err, req_skill,
                                              LevelOf(req_skill, DefaultLevel), visited))
    ELSE IF ~built.none
    THEN Found(PlanStep(req_skill, LevelOf(req_skill, DefaultLevel),
                        LevelOf(req_skill, DefaultLevel), <<built.option>>, "unlock"),
               crafter_key, visited)
    ELSE unlock_rest(unlockers, crafter_key, target_skill, current_level, NotFound(visited))

\* lines 879-898; opts[lv] is _best_options_for_level(req_skill, lv, ignore_gap=True), for
\* the levels it is called with
unlock_levelling(unlockers, crafter_key, target_skill, current_level, visited, opts) ==
    LET ur == Head(unlockers)
        req_skill == IF recipe_skill(ur) # "" THEN recipe_skill(ur) ELSE target_skill
        req_unlock == recipe_unlock_at(ur)
        current == LevelOf(req_skill, DefaultLevel)
        first == req_skill = target_skill /\ current_level < req_unlock
        second == req_unlock # 0 /\ current < req_unlock
    IN IF first /\ opts[current_level].raised # ""
       THEN Raised(opts[current_level].raised, visited)
       ELSE IF first /\ opts[current_level].top # <<>>
       THEN Found(PlanStep(req_skill, current_level, req_unlock, opts[current_level].top,
                           "unlock"), "", visited)
       ELSE IF second /\ opts[current].raised # ""
       THEN Raised(opts[current].raised, visited)
       ELSE IF second /\ opts[current].top # <<>>
       THEN Found(PlanStep(req_skill, current, req_unlock, opts[current].top, "unlock"),
                  "", visited)
       ELSE unlock_try(unlockers, crafter_key, target_skill, current_level, visited, req_skill,
                       build_unlock_option(ur))

\* the for loop of _plan_crafter_unlock_step over the unlock recipes left
unlock_loop(unlockers, crafter_key, target_skill, current_level, visited) ==
    LET ur == Head(unlockers)
        req_skill == IF recipe_skill(ur) # "" THEN recipe_skill(ur) ELSE target_skill
        req_unlock == recipe_unlock_at(ur)
        current == LevelOf(req_skill, DefaultLevel)
        first == IF req_skill = target_skill /\ current_level < req_unlock
                 THEN {current_level} ELSE {}
        second == IF req_unlock # 0 /\ current < req_unlock THEN {current} ELSE {}
    IN IF unlockers = <<>> THEN NotFound(visited)
       ELSE unlock_levelling(unlockers, crafter_key, target_skill, current_level, visited,
                [lv \in first \cup second |->
                    best_options_for_level(req_skill, lv, DefaultTopK, TRUE)])

plan_crafter_unlock_step(crafter_key, target_skill, current_level, visited) ==
    IF crafter_key \in visited THEN NotFound(visited)
    ELSE unlock_loop(crafter_unlock_recipes(crafter_key), crafter_key, target_skill,
                     current_level, visited \cup {crafter_key})

\* the pairs (recipe, missing crafter) part 1 of _missing_prereq walks through, in order
RECURSIVE prereq_unlock_targets(_, _, _)
prereq_unlock_targets(rs, level, required_crafter) ==
    IF rs = <<>> THEN <<>>
    ELSE LET r == Head(rs)
             rest == prereq_unlock_targets(Tail(rs), level, required_crafter)
         IN IF recipe_is_dev(r) \/ ~recipe_unlocked(r, level) THEN rest
            ELSE SelectSeq(missing_crafters_for_recipe(r),
                           LAMBDA ck : required_crafter = "" \/ ck = required_crafter) \o rest

RECURSIVE prereq_unlock_first(_, _, _)

\* lines 813-815: the step returned if there is one, else the next missing crafter
prereq_unlock_tried(cks, skill, level, res) ==
    IF res.found \/ res.raised # "" THEN res
    ELSE prereq_unlock_first(Tail(cks), skill, level)

prereq_unlock_first(cks, skill, level) ==
    IF cks = <<>> THEN NotFound({})
    ELSE prereq_unlock_tried(cks, skill, level,
                             plan_crafter_unlock_step(Head(cks), skill, level, {}))

\* the producers part 2 of _missing_prereq walks through, in order
RECURSIVE prereq_feeders(_, _)
prereq_feeders(rs, level) ==
    IF rs = <<>> THEN <<>>
    ELSE LET r == Head(rs)
             rest == prereq_feeders(Tail(rs), level)
             RECURSIVE of_items(_)
             of_items(ings) == IF ings = <<>> THEN <<>>
                               ELSE producers(Head(ings)[1]) \o of_items(Tail(ings))
         IN IF recipe_is_dev(r) \/ ~recipe_unlocked(r, level) THEN rest
            ELSE of_items(recipe_ingredients(r)) \o rest

\* lines 828-838: best after the producer pr; needed = <<options>> when need_level > cur,
\* <<>> otherwise (the options are not computed)
prereq_feeder_next(pr, best, needed) ==
    LET need_skill == recipe_skill(pr)
        need_level == Max(recipe_unlock_at(pr), recipe_difficulty(pr) - 1)
        cur == LevelOf(need_skill, DefaultLevel)
        cost == need_level - cur
    IN IF needed = <<>> THEN best
       ELSE IF needed[1].raised # "" THEN [best EXCEPT !.raised = needed[1].raised]
       ELSE IF needed[1].top # <<>> /\ (~best.found \/ cost < best.cost)
       THEN [found |-> TRUE, cost |-> cost, raised |-> "",
             step |-> PlanStep(need_skill, cur, cur + 1, needed[1].top, "prereq")]
       ELSE best

\* part 2: best = [found, step, cost, raised]
RECURSIVE prereq_feeder_best(_, _)
prereq_feeder_best(prods, best) ==
    LET pr == Head(prods)
        need_skill == recipe_skill(pr)
        need_level == Max(recipe_unlock_at(pr), recipe_difficulty(pr) - 1)
        cur == LevelOf(need_skill, DefaultLevel)
    IN IF prods = <<>> \/ best.raised # "" THEN best
       ELSE prereq_feeder_best(Tail(prods),
                prereq_feeder_next(pr, best,
                    [i \in 1..(IF need_level > cur THEN 1 ELSE 0) |->
                        best_options_for_level(need_skill, cur, DefaultTopK, FALSE)]))

\* lines 839-842
prereq_second(best) ==
    IF best.raised # "" THEN Raised(best.raised, {})
    ELSE IF best.found THEN Found(best.step, "", {})
    ELSE NotFound({})

\* lines 817-842, after part 1 gave `unlock`
prereq_first(skill, level, unlock) ==
    IF unlock.found \/ unlock.raised # "" THEN unlock
    ELSE prereq_second(prereq_feeder_best(prereq_feeders(recipes_for_skill(skill), level),
                           [found |-> FALSE, cost |-> 0, raised |-> "", step |-> NoStep]))

\* _missing_prereq(skill, level, required_crafter)
missing_prereq(skill, level, required_crafter) ==
    prereq_first(skill, level,
                 prereq_unlock_first(prereq_unlock_targets(recipes_for_skill(skill), level,
                                                           required_crafter),
                                     skill, level))

\* self.skill_crafters[skill]: the crafters listed for the skill's recipes, by tier
skill_crafters(skill) ==
    LET rs == SelectSeq(recipes, LAMBDA r : ~recipe_is_dev(r) /\ recipe_skill(r) = skill
                                            /\ recipe_skill(r) # "")
        cset == UNION {SeqToSet(book[rs[i]].crafters) : i \in 1..Len(rs)}
        TierLess(a, b) == crafter_tiers(a) < crafter_tiers(b)
        \* the crafters of the model have distinct tiers, so the order is determined
        listed == SelectSeq(<<"crafter_x", "crafter_y">>, LAMBDA ck : ck \in cset)
    IN StableSort(listed, TierLess)

RECURSIVE next_crafter_first(_, _, _, _)

\* lines 931-933; tried = <<>> when the crafter is skipped, else <<the unlock step planned>>
next_crafter_tried(cks, owned_tier, skill, level, tried) ==
    IF tried # <<>> /\ (tried[1].found \/ tried[1].raised # "") THEN tried[1]
    ELSE next_crafter_first(Tail(cks), owned_tier, skill, level)

\* lines 925-934
next_crafter_first(cks, owned_tier, skill, level) ==
    IF cks = <<>> THEN NotFound({})
    ELSE next_crafter_tried(cks, owned_tier, skill, level,
             [i \in 1..(IF Owned(Head(cks)) \/ crafter_tiers(Head(cks)) <= owned_tier
                        THEN 0 ELSE 1) |->
                 plan_crafter_unlock_step(Head(cks), skill, level, {})])

\* _plan_next_crafter(skill, level)
plan_next_crafter(skill, level) ==
    LET crafters == skill_crafters(skill)
        tiers == {crafter_tiers(crafters[i]) : i \in {j \in 1..Len(crafters) : Owned(crafters[j])}}
        owned_tier == IF tiers = {} THEN 0 ELSE CHOOSE t \in tiers : \A u \in tiers : u <= t
    IN IF crafters = <<>> THEN NotFound({})
       ELSE next_crafter_first(crafters, owned_tier, skill, level)

\* lines 1075-1083
gap_step(gap_skill, cur, to_level, options) ==
    IF options.raised # "" THEN Raised(options.raised, {})
    ELSE Found(PlanStep(gap_skill, cur, to_level, options.top, "gap"), "", {})

\* a resolver that takes the first gap of the option, whatever its deficit
resolve_first_gap(option, target_skill) ==
    LET gaps == option.prereq_gaps
        cur == LevelOf(gaps[1][1], DefaultLevel)
    IN IF gaps = <<>> THEN NotFound({})
       ELSE gap_step(gaps[1][1], cur, Min(gaps[1][2], cur + 1),
                     best_options_for_level(gaps[1][1], cur, DefaultTopK, FALSE))

\* _resolve_cross_skill_gap(option, target_skill): [found, step, raised]
resolve_cross_skill_gap(option, target_skill) ==
    LET gaps == option.prereq_gaps
        pos == {i \in 1..Len(gaps) : gaps[i][4] > 0}
        \* the first gap with the largest deficit
        b == CHOOSE i \in pos : /\ \A j \in pos : gaps[j][4] <= gaps[i][4]
                                /\ \A j \in pos : gaps[j][4] = gaps[i][4] => i <= j
        gap_skill == gaps[b][1]
        need_level == gaps[b][2]
        cur == LevelOf(gap_skill, DefaultLevel)
        to_level == Min(need_level, cur + 1)
    IN IF pos = {} THEN NotFound({})
       ELSE gap_step(gap_skill, cur, to_level,
                     best_options_for_level(gap_skill, cur, DefaultTopK, FALSE))

(***************************************************************************)
(* Plan orchestrator (LevelPlanner.plan).  One action per way an iteration *)
(* of the while loop can go; LoopExit is the loop condition failing or the *)
(* break on _targets_complete.                                             *)
(***************************************************************************)
\* int(round(x)) for x >= 0 in 1/XpUnit: Python rounds halves to the even integer
RoundHalfEven(x) ==
    LET q == x \div XpUnit
        r == x % XpUnit
    IN IF 2 * r < XpUnit THEN q
       ELSE IF 2 * r > XpUnit THEN q + 1
       ELSE IF q % 2 = 0 THEN q ELSE q + 1

\* XP_EPS = 1e-6 is smaller than one unit: overflow > XP_EPS is overflow >= 1 unit, and
\* overflow + XP_EPS >= need_next is overflow >= need_next
RECURSIVE overflow_loop(_, _, _, _, _)
overflow_loop(skill, level, xp, overflow, goal_level) ==
    IF ~(overflow > 0 /\ level < goal_level) THEN [level |-> level, xp |-> xp]
    ELSE LET need_next == xp_to_next_level(skill, level)
         IN IF need_next <= 0 THEN [level |-> level, xp |-> xp]
            ELSE IF overflow >= need_next * XpUnit
            THEN overflow_loop(skill, level + 1, xp, overflow - need_next * XpUnit, goal_level)
            ELSE overflow_loop(skill, level, RoundHalfEven(overflow), 0, goal_level)

\* an advancement that never spends overflow on further levels
advance_one_level(skill, lvl, option) == [level |-> lvl + 1, xp |-> 0]

\* a faulty advancement that does not stop at the goal level, to test the sensitivity
\* of C30
advance_past_goal(skill, lvl, option) == [level |-> lvl + 2, xp |-> 0]

\* lines 979-999: the level and in-level XP of `skill` after the advancement
advance(skill, lvl, option) ==
    LET total_xp == option.total_xp
        xp_needed == Max(0, (xp_to_next_level(skill, lvl) - cur_xp[skill]) * XpUnit)
        overflow == Max(0, total_xp - xp_needed)
        goal_level == Max(target_level[skill], lvl + 1)
        new_level == Min(goal_level, lvl + 1)
        after == overflow_loop(skill, new_level, 0, overflow, goal_level)
    IN [level |-> after.level, xp |-> IF after.level >= goal_level THEN 0 ELSE after.xp]

targets_complete == \A sk \in DOMAIN target_level : LevelOf(sk, DefaultLevel) >= target_level[sk]

\* _seed_skill_queue: skills by descending deficit; equal deficits keep the order of
\* the profile, which lists skill_a before skill_b
seed_skill_queue ==
    LET DeficitGreater(a, b) ==
            target_level[a] - LevelOf(a, DefaultLevel) > target_level[b] - LevelOf(b, DefaultLevel)
    IN StableSort(SelectSeq(<<"skill_a", "skill_b">>, LAMBDA sk : sk \in DOMAIN target_level),
                  DeficitGreater)

\* a faulty loop condition without the step ceiling, to test the sensitivity of C1
Running_unbounded == pc = "loop" /\ skill_queue # <<>> /\ ~targets_complete

Running == pc = "loop" /\ steps < max_steps /\ skill_queue # <<>> /\ ~targets_complete

\* what an iteration of the loop is found to do: res is the step a resolver returned
Out(kind, skill, lvl, top, res) ==
    [kind |-> kind, skill |-> skill, lvl |-> lvl, options |-> top,
     step |-> res.step, owned_add |-> res.owned_add]

\* lines 1025-1037
iter_unequipped(skill, lvl, crafter) ==
    IF crafter.raised # "" THEN Out("raise", skill, lvl, <<>>, crafter)
    ELSE IF crafter.found THEN Out("crafter", skill, lvl, <<>>, crafter)
    ELSE Out("stagnant", skill, lvl, <<>>, NotFound({}))

\* lines 1010-1025
iter_blocked(skill, lvl, prereq) ==
    IF prereq.raised # "" THEN Out("raise", skill, lvl, <<>>, prereq)
    ELSE IF prereq.found THEN Out("prereq", skill, lvl, <<>>, prereq)
    ELSE iter_unequipped(skill, lvl, plan_next_crafter(skill, lvl))

\* lines 966-1007
iter_feasible(skill, lvl, top, gap) ==
    IF gap.raised # "" THEN Out("raise", skill, lvl, top, gap)
    ELSE IF gap.found THEN Out("gap", skill, lvl, top, gap)
    ELSE Out("advance", skill, lvl, top, NotFound({}))

\* lines 964-966, 1010
iter_ranked(skill, lvl, options) ==
    IF options.raised # "" THEN Out("raise", skill, lvl, <<>>, NotFound({}))
    ELSE IF options.top # <<>>
    THEN iter_feasible(skill, lvl, options.top, resolve_cross_skill_gap(options.top[1], skill))
    ELSE iter_blocked(skill, lvl, missing_prereq(skill, lvl, options.last_missing_crafter))

\* what the iteration that pops Head(skill_queue) does (lines 959-1037):
\*   kind "drop" | "raise" | "gap" | "advance" | "prereq" | "crafter" | "stagnant",
\*   and "none" when the loop does not run an iteration
Iteration ==
    IF ~Running THEN [kind |-> "none"]
    ELSE IF LevelOf(Head(skill_queue), DefaultLevel) >= target_level[Head(skill_queue)]
    THEN Out("drop", Head(skill_queue), cur_level[Head(skill_queue)], <<>>, NotFound({}))
    ELSE iter_ranked(Head(skill_queue), cur_level[Head(skill_queue)],
                     best_options_for_level(Head(skill_queue), cur_level[Head(skill_queue)],
                                            top_k, FALSE))

Static == UNCHANGED <<ServiceVars, book, recipes, skills_table, premium_account, avoid_relics, max_cross_skill_gap,
                      material_config, profile, target_level, max_steps, top_k, call_in, call_out>>

Log(it, kind) == Append(history, <<it.skill, kind>>)

\* d[k] = v on a Python dict
Put(f, k, v) == [x \in DOMAIN f \cup {k} |-> IF x = k THEN v ELSE f[x]]

MarkOwned(ck) == IF ck = "" THEN owned_crafter ELSE Put(owned_crafter, ck, TRUE)

\* self._total_levels_needed, lines 207-210
RECURSIVE levels_needed(_)
levels_needed(sks) ==
    IF sks = {} THEN 0
    ELSE LET sk == CHOOSE x \in sks : TRUE
         IN Max(0, profile[sk].target_level - profile[sk].current_level)
            + levels_needed(sks \ {sk})

total_levels_needed == levels_needed(DOMAIN profile)

\* faulty version, to test the sensitivity of C15: a step counts as one level, however
\* many levels it gains
record_progress_per_step(skill, prev_level, new_level) ==
    IF total_levels_needed <= 0 THEN progress_levels_done
    ELSE IF skill \notin DOMAIN target_level THEN progress_levels_done
    ELSE IF prev_level >= target_level[skill] THEN progress_levels_done
    ELSE LET target == target_level[skill]
             gained == IF Min(target, new_level) > Min(target, prev_level) THEN 1 ELSE 0
         IN IF gained <= 0 THEN progress_levels_done
            ELSE IF progress_levels_done >= total_levels_needed THEN progress_levels_done
            ELSE Min(total_levels_needed, progress_levels_done + gained)

\* _record_progress: the value it leaves in self._progress_levels_done
record_progress(skill, prev_level, new_level) ==
    IF total_levels_needed <= 0 THEN progress_levels_done
    ELSE IF skill \notin DOMAIN target_level THEN progress_levels_done
    ELSE IF prev_level >= target_level[skill] THEN progress_levels_done
    ELSE LET target == target_level[skill]
             gained == Max(0, Min(target, new_level) - Min(target, prev_level))
         IN IF gained <= 0 THEN progress_levels_done
            ELSE IF progress_levels_done >= total_levels_needed THEN progress_levels_done
            ELSE Min(total_levels_needed, progress_levels_done + gained)

\* the tuple (pct, done, total) _emit_progress passes on; pct = min(1.0, done / total) is
\* kept as a fraction
progress_tuple(done) ==
    [pct |-> IF done >= total_levels_needed THEN <<1, 1>> ELSE <<done, total_levels_needed>>,
     done |-> done, total |-> total_levels_needed]

\* _emit_progress(force=True)
ForceEmit ==
    progress_calls' = IF total_levels_needed <= 0 THEN progress_calls
                      ELSE Append(progress_calls, progress_tuple(progress_levels_done))

\* _record_progress followed by _emit_progress(): the call is left out when the last one
\* was made less than PROGRESS_MIN_INTERVAL seconds ago
Report(skill, prev_level, new_level) ==
    /\ progress_levels_done' = record_progress(skill, prev_level, new_level)
    /\ IF progress_levels_done' # progress_levels_done
       THEN \E throttled \in BOOLEAN :
               progress_calls' = IF throttled THEN progress_calls
                                 ELSE Append(progress_calls, progress_tuple(progress_levels_done'))
       ELSE UNCHANGED progress_calls

Quiet == UNCHANGED <<progress_levels_done, progress_calls>>

\* the level change a gap or prerequisite step with options makes
ApplyStep(step) ==
    IF step.options # <<>>
    THEN /\ cur_level' = Put(cur_level, step.skill,
                             Max(LevelOf(step.skill, DefaultLevel), step.to_level))
         /\ cur_xp' = Put(cur_xp, step.skill, 0)
         /\ Report(step.skill, LevelOf(step.skill, DefaultLevel),
                   Max(LevelOf(step.skill, DefaultLevel), step.to_level))
    ELSE UNCHANGED <<cur_level, cur_xp, progress_levels_done, progress_calls>>

LoopExit ==
    /\ pc = "loop"
    /\ ~Running
    /\ pc' = "done"
    /\ ForceEmit
    /\ UNCHANGED <<cur_level, cur_xp, owned_crafter, skill_queue, steps, stagnant_cycles,
                   plan, history, progress_levels_done>>
    /\ Static

DropSkill ==
    \E it \in {Iteration} :
      /\ it.kind = "drop"
      /\ skill_queue' = Tail(skill_queue)
      /\ history' = Log(it, "drop")
      /\ UNCHANGED <<cur_level, cur_xp, owned_crafter, steps, stagnant_cycles, plan, pc>>
      /\ Quiet
      /\ Static

\* a MissingCrafterError leaves plan(): no plan is returned
RaiseMissingCrafter ==
    \E it \in {Iteration} :
      /\ it.kind = "raise"
      /\ pc' = "raised"
      /\ skill_queue' = Tail(skill_queue)
      /\ history' = Log(it, "raise")
      /\ UNCHANGED <<cur_level, cur_xp, owned_crafter, steps, stagnant_cycles, plan>>
      /\ Quiet
      /\ Static

GapStep ==
    \E it \in {Iteration} :
      /\ it.kind = "gap"
      /\ plan' = Append(plan, it.step)
      /\ ApplyStep(it.step)
      /\ steps' = steps + 1
      /\ skill_queue' = Append(Tail(skill_queue), it.skill)
      /\ history' = Log(it, "gap")
      /\ UNCHANGED <<owned_crafter, stagnant_cycles, pc>>
      /\ Static

Advance ==
    \E it \in {Iteration} :
      /\ it.kind = "advance"
      /\ \E after \in {advance(it.skill, it.lvl, it.options[1])} :
            /\ cur_level' = [cur_level EXCEPT ![it.skill] = after.level]
            /\ cur_xp' = [cur_xp EXCEPT ![it.skill] = after.xp]
            /\ plan' = Append(plan, PlanStep(it.skill, it.lvl, after.level, it.options, ""))
            /\ Report(it.skill, it.lvl, after.level)
      /\ steps' = steps + 1
      /\ stagnant_cycles' = 0
      /\ skill_queue' = Append(Tail(skill_queue), it.skill)
      /\ history' = Log(it, "advance")
      /\ UNCHANGED <<owned_crafter, pc>>
      /\ Static

PrereqStep ==
    \E it \in {Iteration} :
      /\ it.kind = "prereq"
      /\ plan' = Append(plan, it.step)
      /\ owned_crafter' = MarkOwned(it.owned_add)
      /\ ApplyStep(it.step)
      /\ steps' = steps + 1
      /\ skill_queue' = Append(Tail(skill_queue), it.skill)
      /\ stagnant_cycles' = 0
      /\ history' = Log(it, "prereq")
      /\ UNCHANGED pc
      /\ Static

NextCrafterStep ==
    \E it \in {Iteration} :
      /\ it.kind = "crafter"
      /\ plan' = Append(plan, it.step)
      /\ owned_crafter' = MarkOwned(it.owned_add)
      /\ steps' = steps + 1
      /\ stagnant_cycles' = 0
      /\ skill_queue' = Append(Tail(skill_queue), it.skill)
      /\ history' = Log(it, "crafter")
      /\ UNCHANGED <<cur_level, cur_xp, pc>>
      /\ Quiet
      /\ Static

Stagnate ==
    \E it \in {Iteration} :
      /\ it.kind = "stagnant"
      /\ stagnant_cycles + 1 < Cardinality(DOMAIN target_level)
      /\ stagnant_cycles' = stagnant_cycles + 1
      /\ skill_queue' = Append(Tail(skill_queue), it.skill)
      /\ history' = Log(it, "stagnant")
      /\ UNCHANGED <<cur_level, cur_xp, owned_crafter, steps, plan, pc>>
      /\ Quiet
      /\ Static

\* a faulty stall that leaves the loop without appending the stalled step, to test the
\* sensitivity of C3
Stall_silent ==
    \E it \in {Iteration} :
      /\ it.kind = "stagnant"
      /\ stagnant_cycles + 1 >= Cardinality(DOMAIN target_level)
      /\ stagnant_cycles' = stagnant_cycles + 1
      /\ history' = Log(it, "stall")
      /\ skill_queue' = Tail(skill_queue)
      /\ pc' = "done"
      /\ UNCHANGED <<cur_level, cur_xp, owned_crafter, steps, plan>>
      /\ ForceEmit
      /\ UNCHANGED progress_levels_done
      /\ Static

Stall ==
    \E it \in {Iteration} :
      /\ it.kind = "stagnant"
      /\ stagnant_cycles + 1 >= Cardinality(DOMAIN target_level)
      /\ stagnant_cycles' = stagnant_cycles + 1
      /\ plan' = Append(plan, PlanStep(it.skill, it.lvl, it.lvl, <<>>, "stalled"))
      /\ history' = Log(it, "stall")
      /\ skill_queue' = Tail(skill_queue)
      /\ pc' = "done"
      /\ UNCHANGED <<cur_level, cur_xp, owned_crafter, steps>>
      /\ ForceEmit
      /\ UNCHANGED progress_levels_done
      /\ Static

(***************************************************************************)
(* Initial states: the data bundles and profiles of the model              *)
(***************************************************************************)
TableLen == 12

\* g.skills: every skill has a table; all entries of a table are equal
XpTables == {[l \in 1..TableLen |-> 100], [l \in 1..TableLen |-> 10]}

AllSkills == Skills \cup {"skill_c"}

StartLevels == {0, 2, 5}
StartXp == {0, 6, 82}

Chain(n) == {Len(BaseBook) + k : k \in 1..n}

\* bundles of one recipe that consumes one raw item: the XP arithmetic is explored on them
XpBundles == {{RING}, {MASH}, {CHARM}}

\* bundles that put equipment, unlock recipes, a feeder skill, a developer-only recipe, a
\* cycle or a long chain to work
GraphBundles ==
    {{SWORD}, {SWORD, BOARD}, {SMELT, SWORD, UNLOCK_X}, {SMELT, HILT, SWORD, UNLOCK_X},
     {SMELT, SWORD, DEVUNLOCK_X}, {SMELT, DEVSMELT, HILT}, {SMELT, HILT, POLISH},
     {PLANK, CHAIR}, {BOARD, BENCH}, {PLANK, ARMOR, UNLOCK_Y, SMELT}, {LOOP, CLOCK}, {SMELT},
     {RING, MASH, SWORD, BLADE}, {GLUE, PLANK, SHELF},
     {WIRE_A, WIRE_B, COIL}, {ROD, CAGE},
     {TOWER} \cup Chain(MaxChain)}

\* the crafters the recipes of a bundle name: as station, as listed crafter, as the
\* equipment an unlock recipe gives
UsesCrafters(rs) ==
    UNION {(SeqToSet(RecipeBook[r].crafters) \cup {RecipeBook[r].station}
            \cup RecipeBook[r].key_crafters) \ {""} : r \in rs}

SkillsOf(rs) == {RecipeBook[r].skill : r \in rs}

\* the profile's crafters are Crafters; only those some loaded recipe names may be owned
OwnedChoices(rs) ==
    {[ck \in Crafters |-> ck \in own] : own \in SUBSET UsesCrafters(rs)}

\* profile entries of a skill with 0 <= current_xp < xp_to_level[current_level]
Entries(table, levels, xps, gains) ==
    {e \in {[current_level |-> l, current_xp |-> x, target_level |-> l + g] :
                l \in levels, x \in xps, g \in gains} :
         e.current_xp < table[e.current_level + 1]}

XpProfiles(table) == {[skill_a |-> a] : a \in Entries(table, StartLevels, StartXp, 1..MaxGain)}

\* skill_b is in the profile only with a bundle that holds recipes of skill_b
GraphProfiles(rs, table) ==
    {[skill_a |-> a] : a \in Entries(table, StartLevels, {0}, 1..MaxGain)}
    \cup {[skill_a |-> a, skill_b |-> b] :
             a \in Entries(table, StartLevels, {0}, 1..MaxGain),
             b \in IF "skill_b" \in SkillsOf(rs) THEN Entries(table, {0, 2}, {0}, 0..1) ELSE {}}

DataInit(rs, table, prof, owned) ==
    /\ book = [r \in rs |-> RecipeBook[r]]
    /\ recipes = SetToSortedSeq(rs)
    /\ skills_table = [sk \in AllSkills |-> table]
    /\ profile = prof
    /\ target_level = [sk \in DOMAIN prof |-> prof[sk].target_level]
    /\ cur_level = [sk \in DOMAIN prof |-> prof[sk].current_level]
    /\ cur_xp = [sk \in DOMAIN prof |-> prof[sk].current_xp]
    /\ owned_crafter = owned

\* the game data and the profile a planner is constructed from
Setup ==
    /\ \/ /\ \E rs \in XpBundles, table \in XpTables :
                \E prof \in XpProfiles(table) :
                   /\ DataInit(rs, table, prof, [ck \in Crafters |-> FALSE])
                   /\ avoid_relics \in (IF CHARM \in rs THEN BOOLEAN ELSE {FALSE})
            /\ material_config \in {{}, {"ore"}}
            /\ max_cross_skill_gap = 5
            /\ premium_account \in BOOLEAN
       \/ /\ \E rs \in GraphBundles, table \in {[l \in 1..TableLen |-> 100]} :
                \E prof \in GraphProfiles(rs, table), owned \in OwnedChoices(rs) :
                   /\ DataInit(rs, table, prof, owned)
                   /\ max_cross_skill_gap
                         \in (IF Cardinality(SkillsOf(rs)) > 1 THEN {-1, 0, 5} ELSE {5})
            /\ avoid_relics = FALSE
            /\ material_config = {}
            /\ premium_account = FALSE

NoCall == [fn |-> ""]

\* a planner just constructed, and plan(top_k, max_steps) entered
Init ==
    /\ NoService
    /\ Setup
    /\ max_steps \in {0, 1, MaxSteps}
    /\ top_k = DefaultTopK
    /\ skill_queue = seed_skill_queue
    /\ steps = 0
    /\ stagnant_cycles = 0
    /\ plan = <<>>
    /\ pc = "loop"
    /\ history = <<>>
    /\ call_in = NoCall
    /\ call_out = NoCall
    /\ progress_levels_done = 0
    /\ progress_calls = IF total_levels_needed <= 0 THEN <<>> ELSE <<progress_tuple(0)>>

\* one iteration of the while loop of plan(), or its exit
Next ==
    \/ LoopExit
    \/ DropSkill
    \/ RaiseMissingCrafter
    \/ GapStep
    \/ Advance
    \/ PrereqStep
    \/ NextCrafterStep
    \/ Stagnate
    \/ Stall

Spec == Init /\ [][Next]_vars

(***************************************************************************)
(* Direct calls of _expand_recipe_full and _best_options_for_level on a    *)
(* planner just constructed, with the arguments their call sites give:     *)
(* the target skill of an expansion is the skill of the recipe, the level  *)
(* of a ranking is self.cur_level.get(skill, 1).                           *)
(***************************************************************************)
InitCalls ==
    /\ NoService
    /\ Setup
    /\ max_steps = 0
    /\ top_k = DefaultTopK
    /\ skill_queue = <<>>
    /\ steps = 0
    /\ stagnant_cycles = 0
    /\ plan = <<>>
    /\ pc = "call"
    /\ history = <<>>
    /\ call_in = NoCall
    /\ call_out = NoCall
    /\ progress_levels_done = 0
    /\ progress_calls = <<>>

Called ==
    /\ pc' = "return"
    /\ UNCHANGED <<ServiceVars, book, recipes, skills_table, premium_account, avoid_relics,
                   max_cross_skill_gap, material_config, profile, target_level, cur_level,
                   cur_xp, owned_crafter, max_steps, top_k, skill_queue, steps, stagnant_cycles,
                   plan, history, progress_levels_done, progress_calls>>

CallExpand ==
    /\ pc = "call"
    /\ \E i \in 1..Len(recipes), crafts \in 0..MaxCrafts :
         /\ call_in' = [fn |-> "expand", recipe |-> recipes[i], crafts |-> crafts]
         /\ call_out' = expand_recipe_full(recipes[i], crafts, recipe_skill(recipes[i]))
    /\ Called

CallBestOptions ==
    /\ pc = "call"
    /\ \E skill \in Skills, k \in 0..DefaultTopK, ignore_gap \in BOOLEAN :
         /\ call_in' = [fn |-> "best", skill |-> skill, level |-> LevelOf(skill, DefaultLevel),
                        top_k |-> k, ignore_gap |-> ignore_gap]
         /\ call_out' = best_options_for_level(skill, LevelOf(skill, DefaultLevel), k, ignore_gap)
    /\ Called

\* the items the loaded recipes make or consume
BookItems ==
    UNION {OutputKeys(recipes[i])
           \cup {recipe_ingredients(recipes[i])[n][1] : n \in 1..Len(recipe_ingredients(recipes[i]))} :
              i \in 1..Len(recipes)}

CallChooseProducer ==
    /\ pc = "call"
    /\ \E item \in BookItems :
         /\ call_in' = [fn |-> "choose", item |-> item]
         /\ call_out' = choose_producer(item)
    /\ Called

NextCalls ==
    \/ CallExpand
    \/ CallBestOptions
    \/ CallChooseProducer

SpecCalls == InitCalls /\ [][NextCalls]_vars

(***************************************************************************)
(* Direct calls of the XP model: success_chance(level, difficulty), and    *)
(* _recipe_xp_stats(recipe, level, skill) on a planner constructed without *)
(* and then with premium_account, all other inputs equal.                  *)
(***************************************************************************)
XpLevels == 0..MaxLevel

\* difficulties around the level, beyond the reach of the logistic curve, and at the
\* edge of what math.exp can take
XpDifficulties == 0..(MaxLevel + Len(Logistic) + 2) \cup {ExpOverflow - 1, ExpOverflow}

InitXp ==
    /\ NoService
    /\ \E rs \in XpBundles \cup GraphBundles :
          DataInit(rs, [l \in 1..TableLen |-> 100],
                   [skill_a |-> [current_level |-> 0, current_xp |-> 0, target_level |-> 1]],
                   [ck \in Crafters |-> FALSE])
    /\ premium_account \in BOOLEAN
    /\ avoid_relics = FALSE
    /\ material_config = {}
    /\ max_cross_skill_gap = 5
    /\ max_steps = 0
    /\ top_k = DefaultTopK
    /\ skill_queue = <<>>
    /\ steps = 0
    /\ stagnant_cycles = 0
    /\ plan = <<>>
    /\ pc = "call"
    /\ history = <<>>
    /\ call_in = NoCall
    /\ call_out = NoCall
    /\ progress_levels_done = 0
    /\ progress_calls = <<>>

CallSuccessChance ==
    /\ pc = "call"
    /\ \E level \in XpLevels, difficulty \in XpDifficulties :
         /\ call_in' = [fn |-> "chance", level |-> level, difficulty |-> difficulty]
         /\ call_out' = IF success_chance_raises(level, difficulty)
                        THEN [raised |-> "OverflowError", value |-> 0]
                        ELSE [raised |-> "", value |-> success_chance(level, difficulty)]
    /\ Called

CallXpStats ==
    /\ pc = "call"
    /\ \E i \in 1..Len(recipes), level \in XpLevels :
         /\ call_in' = [fn |-> "stats", recipe |-> recipes[i], level |-> level,
                        skill |-> recipe_skill(recipes[i])]
         /\ call_out' = recipe_xp_stats(recipes[i], level, recipe_skill(recipes[i]))
    /\ Called

\* a planner constructed from the same data and profile, with premium_account = True
ConstructPremium ==
    /\ pc = "return"
    /\ call_in.fn = "stats"
    /\ ~premium_account
    /\ premium_account' = TRUE
    /\ history' = <<call_out>>
    /\ pc' = "constructed"
    /\ UNCHANGED <<ServiceVars, book, recipes, skills_table, avoid_relics, max_cross_skill_gap,
                   material_config, profile, target_level, cur_level, cur_xp, owned_crafter,
                   max_steps, top_k, skill_queue, steps, stagnant_cycles, plan, call_in,
                   call_out, progress_levels_done, progress_calls>>

\* the same _recipe_xp_stats call on that planner
CallXpStatsPremium ==
    /\ pc = "constructed"
    /\ call_out' = recipe_xp_stats(call_in.recipe, call_in.level, call_in.skill)
    /\ pc' = "compared"
    /\ UNCHANGED <<ServiceVars, book, recipes, skills_table, premium_account, avoid_relics,
                   max_cross_skill_gap, material_config, profile, target_level, cur_level,
                   cur_xp, owned_crafter, max_steps, top_k, skill_queue, steps, stagnant_cycles,
                   plan, history, call_in, progress_levels_done, progress_calls>>

NextXp ==
    \/ CallSuccessChance
    \/ CallXpStats
    \/ ConstructPremium
    \/ CallXpStatsPremium

SpecXp == InitXp /\ [][NextXp]_vars

(***************************************************************************)
(* The single-skill planner (planner.py): plan_skill(g, skill, prof,       *)
(* weights).  Its locals are held in the planner state: curr_level in      *)
(* cur_level[skill], curr_xp_into in cur_xp[skill], owned_stations in      *)
(* owned_crafter, steps in plan; call_in holds the arguments, call_out the *)
(* error it raised.  XP gains are in 1/XpUnit XP.                          *)
(***************************************************************************)
\* _feasible_recipes
feasible_recipes(skill, level, owned_stations) ==
    SelectSeq(recipes, LAMBDA r :
        /\ ~book[r].is_dev
        /\ book[r].grants_xp
        /\ \A i \in 1..Len(book[r].ingredients) : book[r].ingredients[i][1] \notin material_config
        /\ book[r].skill = skill
        /\ level >= book[r].unlock_at
        /\ (book[r].station = "" \/ book[r].station \in owned_stations))

\* costs.craft_cost: material_weights.get(item, 1.0) * qty, summed
RECURSIVE cost_sum(_, _, _)
cost_sum(ingredients, material_weights, n) ==
    IF n = 0 THEN 0
    ELSE cost_sum(ingredients, material_weights, n - 1)
         + (IF ingredients[n][1] \in DOMAIN material_weights
            THEN material_weights[ingredients[n][1]] ELSE 1) * ingredients[n][2]

craft_cost(recipe, material_weights) ==
    LET total == cost_sum(book[recipe].ingredients, material_weights, Len(book[recipe].ingredients))
    IN IF total > 0 THEN total ELSE 1

\* xp_expected(level, r.difficulty, r.unlock_at, r.xp_multiplier, skill=r.skill), in
\* 1/ChanceUnit XP
skill_exp(r, level) ==
    xp_expected(level, book[r].difficulty, book[r].unlock_at, book[r].xp_multiplier, book[r].skill)

NoBest == [recipe |-> 0, exp |-> 0, cost |-> 0]

\* faulty version, to test the sensitivity of C14: the XP of a recipe is taken at its
\* unlock level, not at the current level
RECURSIVE best_recipe_stale_level(_, _, _, _)
best_recipe_stale_level(rlist, level, weights, best) ==
    IF rlist = <<>> THEN best
    ELSE LET r == Head(rlist)
             exp == skill_exp(r, book[r].unlock_at)
             cost == craft_cost(r, weights)
         IN IF exp <= 0 THEN best_recipe_stale_level(Tail(rlist), level, weights, best)
            ELSE IF best.recipe = 0 \/ exp * best.cost > best.exp * cost
            THEN best_recipe_stale_level(Tail(rlist), level, weights,
                                         [recipe |-> r, exp |-> exp, cost |-> cost])
            ELSE best_recipe_stale_level(Tail(rlist), level, weights, best)

\* _best_recipe_now: ratio = exp / cost, the first recipe of the largest ratio wins;
\* best.recipe = 0 stands for None
RECURSIVE best_recipe_now(_, _, _, _)
best_recipe_now(rlist, level, weights, best) ==
    IF rlist = <<>> THEN best
    ELSE LET r == Head(rlist)
             exp == skill_exp(r, level)
             cost == craft_cost(r, weights)
         IN IF exp <= 0 THEN best_recipe_now(Tail(rlist), level, weights, best)
            ELSE IF best.recipe = 0 \/ exp * best.cost > best.exp * cost
            THEN best_recipe_now(Tail(rlist), level, weights,
                                 [recipe |-> r, exp |-> exp, cost |-> cost])
            ELSE best_recipe_now(Tail(rlist), level, weights, best)

\* skills.xp_to_next_level(table, current_level, current_xp_into_level)
skills_xp_to_next_level(table, current_level, current_xp_into_level) ==
    Max(0, (IF current_level < Len(table) THEN table[current_level + 1] ELSE 0)
           - current_xp_into_level)

\* lines 110-111: the stations still to build
needed_stations(skill, curr_level, owned_stations) ==
    {book[r].station : r \in {q \in SeqToSet(recipes) :
        /\ book[q].skill = skill
        /\ ~book[q].is_dev
        /\ book[q].station # ""
        /\ book[q].unlock_at <= curr_level
        /\ book[q].station \notin owned_stations}}

\* the crafter keys in sorted() order
SortedCrafters == <<"crafter_x", "crafter_y">>

\* sorted(needed)[0]
first_station(needed) ==
    SortedCrafters[CHOOSE i \in 1..Len(SortedCrafters) :
                      /\ SortedCrafters[i] \in needed
                      /\ \A j \in 1..(i - 1) : SortedCrafters[j] \notin needed]

\* lines 131: max(1, int(need / exp_per + 0.999)), exp_per in 1/XpUnit XP
skill_crafts(need, exp_per) ==
    Max(1, (1000 * need * XpUnit + 999 * exp_per) \div (1000 * exp_per))

\* lines 148-157: the levels a craft step's XP buys
RECURSIVE gain_levels(_, _, _, _, _)
gain_levels(table, curr_level, curr_xp_into, gained, goal) ==
    IF gained > 0 /\ curr_level < goal
    THEN LET need == skills_xp_to_next_level(table, curr_level, curr_xp_into) * XpUnit
         IN IF gained >= need
            THEN gain_levels(table, curr_level + 1, 0, gained - need, goal)
            ELSE [level |-> curr_level, xp |-> curr_xp_into + gained \div XpUnit]
    ELSE [level |-> curr_level, xp |-> curr_xp_into]

SkillStep(action, key, count, exp_gain, cost) ==
    [action |-> action, key |-> key, count |-> count, exp_gain |-> exp_gain, cost |-> cost]

OwnedStations == {ck \in DOMAIN owned_crafter : owned_crafter[ck]}

\* one iteration of the while loop of plan_skill on the current locals
skill_iteration ==
    LET skill == call_in.skill
        curr_level == cur_level[skill]
        feas == feasible_recipes(skill, curr_level, OwnedStations)
        needed == needed_stations(skill, curr_level, OwnedStations)
        best == best_recipe_now(feas, curr_level, call_in.weights, NoBest)
        exp_per == best.exp * xp_boost2
        need == skills_xp_to_next_level(skills_table[skill], curr_level, cur_xp[skill])
        crafts == skill_crafts(need, exp_per)
    IN IF feas = <<>>
       THEN (IF needed # {} THEN [kind |-> "build", station |-> first_station(needed)]
             ELSE [kind |-> "no_feasible"])
       ELSE IF best.recipe = 0 THEN [kind |-> "no_best"]
       ELSE IF need <= 0 THEN [kind |-> "free"]
       ELSE [kind |-> "craft",
             step |-> SkillStep("craft", best.recipe, crafts, crafts * exp_per, crafts * best.cost),
             after |-> gain_levels(skills_table[skill], curr_level, cur_xp[skill],
                                   crafts * exp_per, target_level[skill])]

SkillRunning == pc = "loop" /\ cur_level[call_in.skill] < target_level[call_in.skill]

SkillStatic ==
    UNCHANGED <<ServiceVars, book, recipes, skills_table, premium_account, avoid_relics,
                max_cross_skill_gap, material_config, profile, target_level, max_steps, top_k,
                skill_queue, steps, stagnant_cycles, history, call_in, progress_levels_done,
                progress_calls>>

\* line 106: the loop ends, line 159
SkillReturn ==
    /\ pc = "loop"
    /\ ~SkillRunning
    /\ pc' = "done"
    /\ UNCHANGED <<cur_level, cur_xp, owned_crafter, plan, call_out>>
    /\ SkillStatic

\* lines 112-116
SkillBuildStation ==
    /\ SkillRunning
    /\ \E it \in {skill_iteration} :
         /\ it.kind = "build"
         /\ plan' = Append(plan, SkillStep("build_station", it.station, 1, 0, 0))
         /\ owned_crafter' = [ck \in DOMAIN owned_crafter \cup {it.station} |->
                                 ck = it.station \/ Owned(ck)]
    /\ UNCHANGED <<cur_level, cur_xp, pc, call_out>>
    /\ SkillStatic

\* lines 118 and 122
SkillRaise ==
    /\ SkillRunning
    /\ \E it \in {skill_iteration} :
         /\ it.kind \in {"no_feasible", "no_best"}
         /\ call_out' = [raised |-> "RuntimeError", why |-> it.kind]
    /\ pc' = "raised"
    /\ UNCHANGED <<cur_level, cur_xp, owned_crafter, plan>>
    /\ SkillStatic

\* lines 126-129
SkillFreeLevel ==
    /\ SkillRunning
    /\ \E it \in {skill_iteration} : it.kind = "free"
    /\ cur_level' = [cur_level EXCEPT ![call_in.skill] = @ + 1]
    /\ cur_xp' = [cur_xp EXCEPT ![call_in.skill] = 0]
    /\ UNCHANGED <<owned_crafter, plan, pc, call_out>>
    /\ SkillStatic

\* lines 131-157
SkillCraft ==
    /\ SkillRunning
    /\ \E it \in {skill_iteration} :
         /\ it.kind = "craft"
         /\ plan' = Append(plan, it.step)
         /\ cur_level' = [cur_level EXCEPT ![call_in.skill] = it.after.level]
         /\ cur_xp' = [cur_xp EXCEPT ![call_in.skill] = it.after.xp]
    /\ UNCHANGED <<owned_crafter, pc, call_out>>
    /\ SkillStatic

SkillBundles ==
    {{MASH}, {MASH, RING}, {NAIL}, {RIVET}, {MASH, NAIL}, {RIVET, NAIL}, {SMELT},
     {SMELT, DEVSMELT, HILT}, {PLANK, UNLOCK_Y}}

\* Weights.material_weight
SkillWeights == {<<>>, [ore |-> 0], [ore |-> 3]}

SkillStart == {0, 3, 4, 5}

\* the profile entries of the skill planned: in-level XP below the requirement of the
\* level, or covering it
SkillEntries(table) ==
    Entries(table, SkillStart, {0}, 0..MaxGain)
    \cup {[current_level |-> 3, current_xp |-> table[4], target_level |-> 3 + g] : g \in 1..MaxGain}

SkillProfiles(rs, table) ==
    {[skill_a |-> a] : a \in SkillEntries(table)}
    \cup {[skill_a |-> a, skill_b |-> b] :
             a \in Entries(table, {0}, {0}, {1}),
             b \in IF "skill_b" \in SkillsOf(rs) THEN SkillEntries(table) ELSE {}}

InitSkill ==
    /\ NoService
    /\ \E rs \in SkillBundles, table \in XpTables :
          \E prof \in SkillProfiles(rs, table), owned \in OwnedChoices(rs) :
             /\ DataInit(rs, table, prof, owned)
             /\ material_config \in (IF rs = {MASH, RING} THEN {{}, {"ore"}} ELSE {{}})
             /\ \E skill \in DOMAIN prof, weights \in SkillWeights :
                  /\ skill = (IF "skill_b" \in DOMAIN prof THEN "skill_b" ELSE "skill_a")
                  /\ call_in = [fn |-> "plan_skill", skill |-> skill, weights |-> weights]
    /\ premium_account \in BOOLEAN
    /\ avoid_relics = FALSE
    /\ max_cross_skill_gap = 5
    /\ max_steps = 0
    /\ top_k = DefaultTopK
    /\ skill_queue = <<>>
    /\ steps = 0
    /\ stagnant_cycles = 0
    /\ plan = <<>>
    /\ pc = "loop"
    /\ history = <<>>
    /\ call_out = NoCall
    /\ progress_levels_done = 0
    /\ progress_calls = <<>>

NextSkill ==
    \/ SkillReturn
    \/ SkillBuildStation
    \/ SkillRaise
    \/ SkillFreeLevel
    \/ SkillCraft

SpecSkill == InitSkill /\ [][NextSkill]_vars

(***************************************************************************)
(* Properties.  Spec runs plan(); SpecCalls calls the expander and the     *)
(* ranker directly.                                                        *)
(***************************************************************************)
\* the skills still below their target
Below == {sk \in DOMAIN target_level : LevelOf(sk, DefaultLevel) < target_level[sk]}

Stalled(step) == step.note = "stalled"

LastStalled == plan # <<>> /\ Stalled(plan[Len(plan)])

\* ------------------------------------------------------------------ C1
\* a measure of the work the loop has left: the steps it may still append, then the
\* stagnations it may still count before it stalls, then the skills it may still drop
Variant ==
    IF pc # "loop" THEN 0
    ELSE 1 + Len(skill_queue)
           + 3 * (Cardinality(DOMAIN target_level) - stagnant_cycles)
           + 3 * (Cardinality(DOMAIN target_level) + 1) * (max_steps - steps)

\* the loop is never stuck: it exits, or its iteration ends in one of the ways of the code
CanStep ==
    \/ ~Running
    \/ Iteration.kind \in {"drop", "raise", "gap", "advance", "prereq", "crafter", "stagnant"}

\* C1: plan() terminates: every step of the loop lowers a natural-number measure and the
\* loop is never stuck, so plan() returns or a MissingCrafterError leaves it; the plan
\* never holds more than max_steps steps; and when plan() returns, every target is met, or
\* the last step is the stalled step, or the step counter has reached max_steps.
C1_PlanTerminates ==
    /\ [][Variant' < Variant]_vars
    /\ [](Variant \in Nat)
    /\ [](pc = "loop" => CanStep)
    /\ [](Len(plan) <= max_steps)
    /\ [](pc = "done" => (targets_complete \/ LastStalled \/ steps >= max_steps))

\* plan() returned at the step ceiling with a partial plan: targets open, no stall
C1_Witness ==
    /\ pc = "done"
    /\ max_steps > 0
    /\ steps = max_steps
    /\ Len(plan) = max_steps
    /\ ~targets_complete
    /\ ~LastStalled

\* ------------------------------------------------------------------ C2
\* C2: in every state of the loop of plan() and for every skill of the profile, either the
\* level is at or above the target and the in-level XP is 0, or
\* 0 <= in-level XP < xpRequired(level).  (Every initial profile satisfies the second.)
C2_LevelXpInvariant ==
    \A sk \in DOMAIN cur_level :
       \/ cur_level[sk] >= target_level[sk] /\ cur_xp[sk] = 0
       \/ 0 <= cur_xp[sk] /\ cur_xp[sk] < xp_to_next_level(sk, cur_level[sk])

\* ------------------------------------------------------------------ C3
\* what the three resolvers return to the loop for a skill that cannot move
NoOptions(options) == options.raised = "" /\ options.top = <<>>

NoneReturned(res) == res.raised = "" /\ ~res.found

Blocked(sk) ==
    /\ NoOptions(best_options_for_level(sk, cur_level[sk], top_k, FALSE))
    /\ NoneReturned(missing_prereq(sk, cur_level[sk],
           best_options_for_level(sk, cur_level[sk], top_k, FALSE).last_missing_crafter))
    /\ NoneReturned(plan_next_crafter(sk, cur_level[sk]))

AllBlocked == Below # {} /\ \A sk \in Below : Blocked(sk)

\* the loop has tried the skill and found nothing to do for it
Tried(sk) ==
    \E i \in 1..Len(history) : history[i][1] = sk /\ history[i][2] \in {"stagnant", "stall"}

\* the plan ends with the one stalled step it holds
StalledOnce ==
    /\ LastStalled
    /\ plan[Len(plan)].options = <<>>
    /\ plan[Len(plan)].to_level = plan[Len(plan)].from_level
    /\ Cardinality({i \in 1..Len(plan) : Stalled(plan[i])}) = 1

\* no iteration has changed the simulation state since plan() was entered
NothingDone ==
    \A i \in 1..Len(history) : history[i][2] \in {"drop", "stagnant", "stall"}

\* C3 as stated: plan() entered with every below-target skill blocked (no option, no
\* prerequisite step, no equipment step) returns a plan that ends with the one stalled
\* step (empty options, to_level = from_level, note set), having tried each such skill.
C3_Original ==
    (pc = "done" /\ NothingDone /\ AllBlocked)
       => (StalledOnce /\ \A sk \in Below : Tried(sk))

\* C3, amended: when every below-target skill is blocked and the step counter is below
\* max_steps, the plan plan() returns (it does return: C1) ends with the one stalled step
\* (empty options, to_level = from_level, note set) and each such skill has been tried;
\* and a stalled step is always the last step of a returned plan.
C3_BlockedPlanStalls ==
    /\ (pc = "done" /\ AllBlocked /\ steps < max_steps)
          => (StalledOnce /\ \A sk \in Below : Tried(sk))
    /\ \A i \in 1..Len(plan) : Stalled(plan[i]) => (i = Len(plan) /\ pc = "done")

\* two blocked skills: the first one tried counted a stagnation, the second one stalled
C3_Witness ==
    /\ pc = "done"
    /\ StalledOnce
    /\ AllBlocked
    /\ steps < max_steps
    /\ Cardinality(Below) = 2
    /\ \A sk \in Below : Tried(sk)
    /\ \E i \in 1..Len(history) : history[i][2] = "stagnant"

\* ------------------------------------------------------------------ C4
\* the iterations of the loop that tried a skill below its target, oldest first
Tries == SelectSeq(history, LAMBDA h : h[2] # "drop")

\* the tries of the pass that ended with the last try: one per skill still below target
LastPass == SubSeq(Tries, Len(Tries) - Cardinality(Below) + 1, Len(Tries))

\* C4: when the plan ends with the stalled step, the pass that ended with the stall tried
\* every skill still below its target, and none of these tries produced a step
\* (advancement, gap, prerequisite or equipment step).
C4_StallOnlyAfterIdlePass ==
    LastStalled =>
       /\ Len(Tries) >= Cardinality(Below)
       /\ {LastPass[i][1] : i \in 1..Len(LastPass)} = Below
       /\ \A i \in 1..Len(LastPass) : LastPass[i][2] \in {"stagnant", "stall"}

\* ------------------------------------------------------------------ C5
Returned(fn) == pc = "return" /\ call_in.fn = fn

\* C5: no option returned by _best_options_for_level has a root recipe with
\* grants_xp = False.
C5_NoOptionWithoutXp ==
    Returned("best") =>
       \A i \in 1..Len(call_out.top) : book[call_out.top[i].recipe_key].grants_xp

\* a ranking that returned options although a recipe of the skill without XP was unlocked,
\* equipped and made of an XP-granting intermediate craft
C5_Witness ==
    /\ Returned("best")
    /\ call_out.top # <<>>
    /\ \E i \in 1..Len(recipes) :
          /\ book[recipes[i]].skill = call_in.skill
          /\ ~book[recipes[i]].grants_xp
          /\ ~book[recipes[i]].is_dev
          /\ book[recipes[i]].unlock_at <= call_in.level
          /\ book[recipes[i]].crafters = <<>>
          /\ \E n \in 1..Len(book[recipes[i]].ingredients) :
                book[recipes[i]].ingredients[n][1] = "hilt"

\* ------------------------------------------------------------------ C6
\* the equipment a recipe can be crafted at: its station and its listed crafters
Equipment(r) ==
    SeqToSet(book[r].crafters) \cup (IF book[r].station # "" THEN {book[r].station} ELSE {})

C7_NoDevRecipeInPlan ==
    \A i \in 1..Len(plan) : \A j \in 1..Len(plan[i].options) :
       /\ ~book[plan[i].options[j].recipe_key].is_dev
       /\ \A n \in 1..Len(plan[i].options[j].craft_summary) :
             ~book[plan[i].options[j].craft_summary[n].recipe].is_dev

\* a returned plan with an option that crafts an intermediate item which a loaded
\* developer-only recipe also produces
C7_Witness ==
    /\ pc = "done"
    /\ \E d \in 1..Len(recipes), i \in 1..Len(plan) : \E j \in 1..Len(plan[i].options) :
          /\ book[recipes[d]].is_dev
          /\ \E n \in 1..Len(plan[i].options[j].craft_summary) :
                /\ plan[i].options[j].craft_summary[n].recipe # plan[i].options[j].recipe_key
                /\ OutputKeys(plan[i].options[j].craft_summary[n].recipe)
                      \cap OutputKeys(recipes[d]) # {}

\* ------------------------------------------------------------------ C8
\* the profile has one skill, one level below its target, and the only recipe loaded is of
\* that skill, gives XP, is unlocked at the profile's level, needs no equipment and
\* consumes one raw item
SingleRecipeCase ==
    /\ DOMAIN profile = {"skill_a"}
    /\ profile["skill_a"].target_level = profile["skill_a"].current_level + 1
    /\ Len(recipes) = 1
    /\ book[recipes[1]].skill = "skill_a"
    /\ book[recipes[1]].grants_xp
    /\ ~book[recipes[1]].is_dev
    /\ book[recipes[1]].unlock_at <= profile["skill_a"].current_level
    /\ Equipment(recipes[1]) = {}
    /\ Len(book[recipes[1]].ingredients) = 1
    /\ book[recipes[1]].ingredients[1][1] \in RawItems

\* expectedXp(L, difficulty) of the only recipe, premium boost included, in 1/XpUnit XP
SingleExpectedXp ==
    xp_boost2 * xp_expected(profile["skill_a"].current_level, book[recipes[1]].difficulty,
                            book[recipes[1]].unlock_at, book[recipes[1]].xp_multiplier,
                            "skill_a")

\* xpRequired(L) - current_xp of the profile, in 1/XpUnit XP
SingleXpNeeded ==
    XpUnit * (xp_to_next_level("skill_a", profile["skill_a"].current_level)
              - profile["skill_a"].current_xp)

\* one step L -> L+1 with one option of max(1, ceil(needed / expected)) crafts
SingleStepPlan ==
    /\ Len(plan) = 1
    /\ plan[1].skill = "skill_a"
    /\ plan[1].from_level = profile["skill_a"].current_level
    /\ plan[1].to_level = profile["skill_a"].current_level + 1
    /\ Len(plan[1].options) = 1
    /\ plan[1].options[1].recipe_key = recipes[1]
    /\ SingleExpectedXp > 0
    /\ plan[1].options[1].crafts
          = Max(1, (SingleXpNeeded + SingleExpectedXp - 1) \div SingleExpectedXp)

YieldOf(producer, item) == Max(1, OutputQty(producer, item))

AddTotals(a, b) == [i \in Items |-> a[i] + b[i]]

\* the ingredient tree of an item unrolled without any stock: the requirement goes to the
\* totals at a base material, at an item without usable producer, at a repeated item and
\* past the depth ceiling; else it is multiplied through the producer's ingredients
RECURSIVE Unroll(_, _, _, _)
RECURSIVE UnrollEach(_, _, _, _)
Unroll(item, qty, depth, trail) ==
    IF qty <= 0 THEN NoTotals
    ELSE IF item \in trail \/ depth > DepthCeiling \/ is_base_material(item)
            \/ choose_producer(item).recipe = 0
    THEN [NoTotals EXCEPT ![item] = qty]
    ELSE UnrollEach(book[choose_producer(item).recipe].ingredients,
                    (qty + YieldOf(choose_producer(item).recipe, item) - 1)
                        \div YieldOf(choose_producer(item).recipe, item),
                    depth + 1, trail \cup {item})

UnrollEach(ingredients, mult, depth, trail) ==
    IF ingredients = <<>> THEN NoTotals
    ELSE AddTotals(Unroll(Head(ingredients)[1], Head(ingredients)[2] * mult, depth, trail),
                   UnrollEach(Tail(ingredients), mult, depth, trail))

\* C9: the base-material totals _expand_recipe_full returns are non-negative integers, and
\* when the expansion served nothing from surplus stock they equal the unrolled ingredient
\* tree of the recipe.
C9_TotalsAreUnrolledTree ==
    (Returned("expand") /\ call_out.err = "") =>
       /\ \A i \in Items : call_out.base_totals[i] \in Nat
       /\ ~call_out.reused =>
             call_out.base_totals
                = UnrollEach(book[call_in.recipe].ingredients, call_in.crafts, 1, {})

\* an expansion without stock reuse that gathered the same base material in two places
C9_Witness ==
    /\ Returned("expand")
    /\ call_out.err = ""
    /\ ~call_out.reused
    /\ \E i, j \in 1..Len(call_out.lines) :
          /\ i < j
          /\ call_out.lines[i][1] = "gather"
          /\ call_out.lines[j][1] = "gather"
          /\ call_out.lines[i][2] = call_out.lines[j][2]

\* ------------------------------------------------------------------ C10
\* the item's only producer requires the item itself
SelfFed(item) ==
    /\ Cardinality(SeqToSet(producers(item))) = 1
    /\ \E n \in 1..Len(book[producers(item)[1]].ingredients) :
          book[producers(item)[1]].ingredients[n][1] = item

\* the quantity of `item` that one craft of `r` consumes
Consumes(r, item) ==
    LET hits == {n \in 1..Len(book[r].ingredients) : book[r].ingredients[n][1] = item}
    IN book[r].ingredients[CHOOSE n \in hits : TRUE][2]

\* the quantity of a self-fed ingredient of the root that its producer asks for again
Refed(item) ==
    Consumes(producers(item)[1], item)
       * CeilDiv(Consumes(call_in.recipe, item) * call_in.crafts,
                 YieldOf(producers(item)[1], item))

\* C10: _expand_recipe_full returns on every recipe graph of the model; helper is never
\* entered deeper than one level past the ceiling of 12; and for an ingredient A of the
\* root whose only producer requires A, the expansion stops where A repeats (depth 2): the
\* trace holds a "(cycle)" line for A there with the quantity requested, none deeper, and
\* the base-material totals hold that quantity of A.
C10_CyclesTerminate ==
    Returned("expand") =>
       /\ call_out.max_depth <= DepthCeiling + 1
       /\ \A n \in 1..Len(call_out.lines) : call_out.lines[n][4] <= DepthCeiling + 1
       /\ \A a \in Items :
             (/\ call_out.err = ""
              /\ call_in.crafts >= 1
              /\ \E n \in 1..Len(book[call_in.recipe].ingredients) :
                    book[call_in.recipe].ingredients[n][1] = a
              /\ SelfFed(a))
             => /\ \E n \in 1..Len(call_out.lines) :
                      call_out.lines[n] = <<"cycle", a, Refed(a), 2>>
                /\ \A n \in 1..Len(call_out.lines) :
                      call_out.lines[n][2] = a => call_out.lines[n][4] <= 2
                /\ call_out.base_totals[a] = Refed(a)

\* an expansion of a recipe that is not itself on the cycle returned with a cycle line
C10_Witness ==
    /\ Returned("expand")
    /\ call_out.err = ""
    /\ call_in.crafts >= 2
    /\ \E a \in Items :
          /\ SelfFed(a)
          /\ a \notin OutputKeys(call_in.recipe)
          /\ \E n \in 1..Len(call_out.lines) : call_out.lines[n] = <<"cycle", a, Refed(a), 2>>

(***************************************************************************)
(* C12: the success, failure (where defined: level < difficulty) and       *)
(* expected XP of _recipe_xp_stats with premium_account = True are exactly *)
(* 1.5 times those with premium_account = False; the success chance is     *)
(* the same.                                                               *)
(***************************************************************************)
PremiumCompared == pc = "compared" /\ call_in.fn = "stats"

FailureDefined == call_in.level < recipe_difficulty(call_in.recipe)

C13_SuccessChanceRange ==
    (pc = "return" /\ call_in.fn = "chance") =>
        /\ call_out.raised = ""
        /\ IF call_in.level < call_in.difficulty
           THEN (4 * ChanceUnit) \div 100 <= call_out.value /\ call_out.value <= ChanceUnit
           ELSE call_out.value = ChanceUnit

(***************************************************************************)
(* C14: plan_skill raises RuntimeError, returning no plan, whenever at a   *)
(* level it reaches below the target no recipe of the skill is both        *)
(* feasible and of positive expected XP and no unowned station is left to  *)
(* build; and it never emits a craft step for a recipe whose expected XP   *)
(* at the current level is <= 0.                                           *)
(***************************************************************************)
\* a recipe of the skill planned that can be crafted now: not developer-only, XP-granting,
\* unlocked, its station owned, none of its ingredients disabled
Usable(r) ==
    /\ book[r].skill = call_in.skill
    /\ ~book[r].is_dev
    /\ book[r].grants_xp
    /\ book[r].unlock_at <= cur_level[call_in.skill]
    /\ (book[r].station # "" => Owned(book[r].station))
    /\ \A i \in 1..Len(book[r].ingredients) : book[r].ingredients[i][1] \notin material_config

PositiveXp(r) == skill_exp(r, cur_level[call_in.skill]) > 0

StationLeft ==
    \E r \in DOMAIN book :
        /\ book[r].skill = call_in.skill
        /\ ~book[r].is_dev
        /\ book[r].station # ""
        /\ ~Owned(book[r].station)
        /\ book[r].unlock_at <= cur_level[call_in.skill]

DeadEnd ==
    /\ SkillRunning
    /\ ~StationLeft
    /\ \A r \in DOMAIN book : ~(Usable(r) /\ PositiveXp(r))

CraftEmitted == Len(plan') = Len(plan) + 1 /\ plan'[Len(plan')].action = "craft"

C14_DeadEndRaises ==
    /\ [][/\ DeadEnd => (pc' = "raised" /\ call_out'.raised = "RuntimeError" /\ plan' = plan)
          /\ CraftEmitted => (PositiveXp(plan'[Len(plan')].key)
                               /\ plan'[Len(plan')].exp_gain > 0)]_vars
    /\ [](pc = "done" => ~(cur_level[call_in.skill] < target_level[call_in.skill]))

\* the planner crafted its way up to a level at which the only recipe gives no XP
C14_Witness ==
    /\ pc = "raised"
    /\ call_out.raised = "RuntimeError"
    /\ call_out.why = "no_best"
    /\ \E i \in 1..Len(plan) : plan[i].action = "craft"
    /\ cur_level[call_in.skill] > profile[call_in.skill].current_level
    /\ \E r \in DOMAIN book : Usable(r) /\ ~PositiveXp(r)

(***************************************************************************)
(* C15: over one run of plan() the tuples (fraction, done, total) passed   *)
(* to the progress callback have done non-decreasing, 0 <= done <= total,  *)
(* total constant, fraction = done / total within [0, 1]; and done is the  *)
(* number of levels gained so far by the skills with a target, each        *)
(* counted only up to its target.                                          *)
(***************************************************************************)
RECURSIVE GainedBy(_)
GainedBy(sks) ==
    IF sks = {} THEN 0
    ELSE LET sk == CHOOSE x \in sks : TRUE
             target == target_level[sk]
         IN Max(0, Min(target, cur_level[sk]) - Min(target, profile[sk].current_level))
            + GainedBy(sks \ {sk})

LevelsGained == GainedBy(DOMAIN target_level)

WellFormedTuple(t) ==
    /\ 0 <= t.done /\ t.done <= t.total
    /\ t.pct[2] > 0 /\ 0 <= t.pct[1] /\ t.pct[1] <= t.pct[2]
    /\ t.pct[1] * t.total = t.done * t.pct[2]

C15_ProgressTuples ==
    /\ [](\A i \in 1..Len(progress_calls) :
             /\ WellFormedTuple(progress_calls[i])
             /\ \A j \in i..Len(progress_calls) :
                    /\ progress_calls[i].done <= progress_calls[j].done
                    /\ progress_calls[i].total = progress_calls[j].total)
    /\ [][progress_calls' # progress_calls =>
             /\ Len(progress_calls') = Len(progress_calls) + 1
             /\ SubSeq(progress_calls', 1, Len(progress_calls)) = progress_calls
             /\ progress_calls'[Len(progress_calls')].done = LevelsGained']_vars

\* two skills gained levels, one call was left out by the throttle, and the last tuple
\* reports all levels done
C15_Witness ==
    /\ pc = "done"
    /\ Len(progress_calls) >= 3
    /\ progress_calls[Len(progress_calls)].done = progress_calls[1].total
    /\ progress_calls[Len(progress_calls)].pct = <<1, 1>>
    /\ \E i \in 1..(Len(progress_calls) - 1) :
           progress_calls[i + 1].done >= progress_calls[i].done + 2
    /\ Cardinality({sk \in DOMAIN target_level : cur_level[sk] > profile[sk].current_level}) = 2

(***************************************************************************)
(* C16: for any non-negative top_k, _best_options_for_level returns at     *)
(* most top_k options, in non-increasing order of                          *)
(* score = unit expected XP / (1 + unit burden); options of equal score    *)
(* keep the order in which their recipes were enumerated.                  *)
(***************************************************************************)
\* the burden of one craft of an option: material_burden = burden_one * crafts
UnitBurden(o) == o.material_burden \div o.crafts

\* score(a) >= score(b) and score(a) = score(b), on scores xp / (1 + burden) with the
\* burden in 1/RarityUnit
ScoreAtLeast(a, b) ==
    a.xp_per_craft * (RarityUnit + UnitBurden(b)) >= b.xp_per_craft * (RarityUnit + UnitBurden(a))

ScoreEqual(a, b) == ScoreAtLeast(a, b) /\ ScoreAtLeast(b, a)

\* the place of a recipe in g.recipes
Enumerated(r) == CHOOSE i \in 1..Len(recipes) : recipes[i] = r

RankedByScore(top) ==
    \A i \in 1..Len(top) : \A j \in (i + 1)..Len(top) :
        /\ ScoreAtLeast(top[i], top[j])
        /\ ScoreEqual(top[i], top[j]) =>
              Enumerated(top[i].recipe_key) < Enumerated(top[j].recipe_key)

C16_AtMostTopKRanked ==
    (Returned("best") /\ call_out.raised = "") =>
        /\ Len(call_out.top) <= call_in.top_k
        /\ RankedByScore(call_out.top)

(***************************************************************************)
(* C17: a normal advancement step of a skill at level L below its target T *)
(* records to_level = L + 1 + j, j the largest number of further levels    *)
(* whose full requirements are covered in turn by                          *)
(* overflow = max(0, options[0].total_xp - XP still needed at L), never    *)
(* above T; what is left of the overflow becomes the in-level XP (0 when T *)
(* is reached).                                                            *)
(***************************************************************************)
\* the loop took the advancement branch for skill sk
Advanced(sk) == history' = Append(history, <<sk, "advance">>)

AdvanceStep == plan'[Len(plan')]

\* overflow of the step, in 1/XpUnit
StepOverflow(sk) ==
    Max(0, AdvanceStep.options[1].total_xp
            - Max(0, (xp_to_next_level(sk, cur_level[sk]) - cur_xp[sk]) * XpUnit))

\* the requirements of levels a .. b - 1, in 1/XpUnit
RECURSIVE Requirements(_, _, _)
Requirements(sk, a, b) ==
    IF a >= b THEN 0 ELSE xp_to_next_level(sk, a) * XpUnit + Requirements(sk, a + 1, b)

\* the numbers of further levels the overflow pays for in full
Covered(sk) ==
    {j \in 0..(target_level[sk] - cur_level[sk] - 1) :
        /\ Requirements(sk, cur_level[sk] + 1, cur_level[sk] + 1 + j) <= StepOverflow(sk)
        /\ \A l \in (cur_level[sk] + 1)..(cur_level[sk] + j) : xp_to_next_level(sk, l) > 0}

FurtherLevels(sk) == CHOOSE j \in Covered(sk) : \A k \in Covered(sk) : k <= j

Leftover(sk) ==
    StepOverflow(sk)
      - Requirements(sk, cur_level[sk] + 1, cur_level[sk] + 1 + FurtherLevels(sk))

AdvanceLevels(sk) ==
    /\ AdvanceStep.skill = sk
    /\ AdvanceStep.from_level = cur_level[sk]
    /\ AdvanceStep.to_level = cur_level[sk] + 1 + FurtherLevels(sk)
    /\ AdvanceStep.to_level <= target_level[sk]
    /\ cur_level'[sk] = AdvanceStep.to_level

Popped == Head(skill_queue)

\* what _best_options_for_level returns for the popped skill
PoppedOptions == best_options_for_level(Popped, cur_level[Popped], top_k, FALSE)

\* the loop runs an iteration for a skill below its target whose top option carries gaps
TopHasGaps ==
    /\ Running
    /\ LevelOf(Popped, DefaultLevel) < target_level[Popped]
    /\ PoppedOptions.raised = ""
    /\ PoppedOptions.top # <<>>
    /\ PoppedOptions.top[1].prereq_gaps # <<>>

TopGaps == PoppedOptions.top[1].prereq_gaps

\* a gap of the top option no other gap of it exceeds
LargestGaps == {i \in 1..Len(TopGaps) : \A j \in 1..Len(TopGaps) : TopGaps[j][4] <= TopGaps[i][4]}

FeederStep == plan'[Len(plan')]

\* the step appended is the step of a feeder skill, S takes no step and returns to the queue
FeederStepAppended ==
    /\ plan' = Append(plan, FeederStep)
    /\ FeederStep.note = "gap"
    /\ FeederStep.skill # Popped
    /\ \E i \in LargestGaps :
          /\ FeederStep.skill = TopGaps[i][1]
          /\ FeederStep.from_level = LevelOf(TopGaps[i][1], DefaultLevel)
          /\ FeederStep.to_level = FeederStep.from_level + 1
          /\ FeederStep.to_level <= TopGaps[i][2]
    /\ cur_level'[Popped] = cur_level[Popped]
    /\ cur_xp'[Popped] = cur_xp[Popped]
    /\ skill_queue' = Append(Tail(skill_queue), Popped)

FeederRaised ==
    /\ FeederStep.skill \in DOMAIN cur_level'
    /\ cur_level'[FeederStep.skill] = FeederStep.to_level

FeederKept ==
    /\ cur_level' = cur_level
    /\ cur_xp' = cur_xp

\* an advancement step is taken only on a top option without gaps
AdvanceOnlyWithoutGap ==
    \A sk \in DOMAIN target_level :
        Advanced(sk) => /\ sk = Popped
                        /\ PoppedOptions.top # <<>>
                        /\ PoppedOptions.top[1].prereq_gaps = <<>>

GapChecked == max_cross_skill_gap >= 0 /\ ~call_in.ignore_gap

\* a recipe of the skill asked for that passes every filter other than the gap check
PassesOtherFilters(r) ==
    /\ book[r].skill = call_in.skill
    /\ unit_candidate(r, call_in.skill, call_in.level).kind = "cand"
    /\ expand_recipe_full(r, 1, call_in.skill).err = ""
    /\ ~contains_disabled_materials(expand_recipe_full(r, 1, call_in.skill).base_totals)

InTop(r) == \E n \in 1..Len(call_out.top) : call_out.top[n].recipe_key = r

\* the deficits of the recipe's ingredients that lie in other skills
GapsOf(r) == dependency_gaps(r, 1, call_in.skill).gaps

C19_GapRejection ==
    (Returned("best") /\ call_out.raised = "") =>
       /\ GapChecked =>
             \A n \in 1..Len(call_out.top) :
                /\ call_out.top[n].prereq_gaps = GapsOf(call_out.top[n].recipe_key)
                /\ \A g \in 1..Len(call_out.top[n].prereq_gaps) :
                       call_out.top[n].prereq_gaps[g][4] <= max_cross_skill_gap
       /\ (~GapChecked /\ Len(call_out.top) < call_in.top_k) =>
             \A i \in 1..Len(recipes) : PassesOtherFilters(recipes[i]) => InTop(recipes[i])

\* a checked call left out a recipe for its gap, and returned fewer options than asked for
C19_Witness ==
    /\ Returned("best")
    /\ call_out.raised = ""
    /\ GapChecked
    /\ Len(call_out.top) < call_in.top_k
    /\ \E i \in 1..Len(recipes) :
          /\ PassesOtherFilters(recipes[i])
          /\ ~InTop(recipes[i])
          /\ \E g \in 1..Len(GapsOf(recipes[i])) : GapsOf(recipes[i])[g][4] > max_cross_skill_gap

(***************************************************************************)
(* C20: the equipment-unlock strategy marks a piece of equipment owned     *)
(* only by executing an unlock recipe whose unlock level is <= the current *)
(* simulated level of that recipe's skill; when the unlock recipe's        *)
(* required level exceeds the current level, it emits a step that advances *)
(* that skill instead and leaves equipment ownership unchanged.            *)
(***************************************************************************)
\* recipe r is an unlock recipe of the equipment ck
UnlockRecipeOf(r, ck) ==
    /\ ~book[r].is_dev
    /\ book[r].unlock_suffix # ""
    /\ ck \in book[r].key_crafters

UnlockStep == plan'[Len(plan')]

\* the step just appended executes one unlock recipe of ck, at the level of its skill
ExecutesUnlock(ck) ==
    /\ Len(plan') = Len(plan) + 1
    /\ plan' = Append(plan, UnlockStep)
    /\ UnlockStep.note = "unlock"
    /\ Len(UnlockStep.options) = 1
    /\ UnlockRecipeOf(UnlockStep.options[1].recipe_key, ck)
    /\ UnlockStep.skill = book[UnlockStep.options[1].recipe_key].skill
    /\ UnlockStep.to_level = UnlockStep.from_level
    /\ UnlockStep.from_level = LevelOf(UnlockStep.skill, DefaultLevel)

\* the step just appended advances a skill towards the level of an unlock recipe
AdvancesTowardsUnlock ==
    /\ Len(plan') = Len(plan) + 1
    /\ plan' = Append(plan, UnlockStep)
    /\ UnlockStep.note = "unlock"
    /\ UnlockStep.to_level > UnlockStep.from_level

C20_UnlockOnlyWhenUnlocked ==
    [][/\ \A ck \in Crafters :
             (~Owned(ck) /\ Owned(ck)') =>
                 /\ ExecutesUnlock(ck)
                 /\ book[UnlockStep.options[1].recipe_key].unlock_at
                       <= LevelOf(UnlockStep.skill, DefaultLevel)
       /\ AdvancesTowardsUnlock =>
             /\ owned_crafter' = owned_crafter
             /\ \E i \in 1..Len(recipes), ck \in Crafters :
                   /\ UnlockRecipeOf(recipes[i], ck)
                   /\ book[recipes[i]].skill = UnlockStep.skill
                   /\ book[recipes[i]].unlock_at = UnlockStep.to_level]_vars

(***************************************************************************)
(* C21: in the craft-step list returned by _expand_recipe_full every       *)
(* intermediate craft appears after all crafts that produce its own inputs *)
(* in that branch (innermost first), and the last element is the root      *)
(* recipe with the requested craft count and the target skill.             *)
(***************************************************************************)
Expanded == Returned("expand") /\ call_out.err = ""

\* the places of the craft lines in the trace; a craft step is appended with each
CraftLines ==
    SelectSeq([n \in 1..Len(call_out.lines) |-> n], LAMBDA n : call_out.lines[n][1] = "craft")

\* the first line after line m that is less deep than line m: the line of its parent
ParentLine(m) ==
    CHOOSE n \in (m + 1)..Len(call_out.lines) :
        /\ call_out.lines[n][4] < call_out.lines[m][4]
        /\ \A k \in (m + 1)..(n - 1) : call_out.lines[k][4] >= call_out.lines[m][4]

\* the craft step appended with craft line n
StepOfLine(n) == call_out.craft_steps[CHOOSE k \in 1..Len(CraftLines) : CraftLines[k] = n]

IngredientKeys(r) == {recipe_ingredients(r)[n][1] : n \in 1..Len(recipe_ingredients(r))}

C21_CraftsInnermostFirst ==
    Expanded =>
       /\ call_out.craft_steps # <<>>
       /\ call_out.craft_steps[Len(call_out.craft_steps)]
             = <<call_in.recipe, call_in.crafts, recipe_skill(call_in.recipe)>>
       /\ Len(call_out.craft_steps) = Len(CraftLines) + 1
       /\ \A k \in 1..Len(CraftLines) :
             /\ call_out.craft_steps[k][2] = call_out.lines[CraftLines[k]][3]
             /\ call_out.craft_steps[k][3] = recipe_skill(call_out.craft_steps[k][1])
       /\ \A m \in 1..Len(call_out.lines) :
             call_out.lines[m][4] >= 1 =>
                /\ \E n \in (m + 1)..Len(call_out.lines) :
                       call_out.lines[n][4] < call_out.lines[m][4]
                /\ call_out.lines[ParentLine(m)][4] = call_out.lines[m][4] - 1
                /\ call_out.lines[m][4] = 1 => call_out.lines[ParentLine(m)][1] = "final"
                /\ call_out.lines[m][4] >= 2 =>
                      /\ call_out.lines[ParentLine(m)][1] = "craft"
                      /\ call_out.lines[m][2] \in IngredientKeys(StepOfLine(ParentLine(m))[1])

\* an expansion with a craft two levels below the root, recorded before the craft it feeds
C21_Witness ==
    /\ Expanded
    /\ Len(call_out.craft_steps) >= 3
    /\ \E k \in 1..(Len(CraftLines) - 1) :
          /\ call_out.lines[CraftLines[k]][4] = 2
          /\ call_out.lines[CraftLines[k + 1]][4] = 1

(***************************************************************************)
(* C22: within one expansion the banked surplus of an item is always       *)
(* smaller than one craft's output of its producer, and for an item not    *)
(* involved in a cycle the total crafts scheduled for it equal             *)
(* ceil(total required quantity / output per craft).                       *)
(***************************************************************************)
\* the items the expansion may craft: not base material, with a producer chosen
Craftable(x) == ~is_base_material(x) /\ choose_producer(x).err = "" /\ choose_producer(x).recipe # 0

PerCraft(x) == Max(1, OutputQty(choose_producer(x).recipe, x))

\* the items a craft of x asks for, directly or through the producers of what it asks for
RECURSIVE FedBy(_, _)
FedBy(xs, n) ==
    IF n = 0 THEN xs
    ELSE FedBy(xs \cup UNION {IngredientKeys(choose_producer(y).recipe) :
                                 y \in {z \in xs : Craftable(z)}}, n - 1)

OnCycle(x) ==
    Craftable(x) /\ x \in FedBy(IngredientKeys(choose_producer(x).recipe), Len(recipes))

\* the crafts scheduled for x: the counts of its craft lines
RECURSIVE CraftsOf(_, _)
CraftsOf(x, n) ==
    IF n = 0 THEN 0
    ELSE (IF call_out.lines[n][1] = "craft" /\ call_out.lines[n][2] = x
          THEN call_out.lines[n][3] ELSE 0) + CraftsOf(x, n - 1)

\* the quantity of x required: what the crafts recorded consume of it
RECURSIVE RequiredOf(_, _)
RequiredOf(x, k) ==
    IF k = 0 THEN 0
    ELSE (IF x \in IngredientKeys(call_out.craft_steps[k][1])
          THEN Consumes(call_out.craft_steps[k][1], x) * call_out.craft_steps[k][2] ELSE 0)
         + RequiredOf(x, k - 1)

\* a requirement of x was cut off: x repeated in its branch, or lay below the depth ceiling
CutOff(x) ==
    \E n \in 1..Len(call_out.lines) : call_out.lines[n][1] = "cycle" /\ call_out.lines[n][2] = x

SurplusBelowOneCraft ==
    /\ ~call_out.overbanked
    /\ \A x \in Items :
          IF Craftable(x) THEN call_out.stock[x] < PerCraft(x) ELSE call_out.stock[x] = 0

CraftsAreCeiling(x) ==
    CraftsOf(x, Len(call_out.lines))
       = CeilDiv(RequiredOf(x, Len(call_out.craft_steps)), PerCraft(x))

\* C22 as stated: the crafts of every craftable item that is on no cycle are the ceiling
C22_SurplusReusedOffCycle ==
    Expanded =>
       /\ SurplusBelowOneCraft
       /\ \A x \in Items : (Craftable(x) /\ ~OnCycle(x)) => CraftsAreCeiling(x)

\* C22, amended: the crafts of every craftable item none of whose requirements was cut
\* off (at a repeat of the item in its branch or below the depth ceiling) are the ceiling
C22_SurplusReusedUncut ==
    Expanded =>
       /\ SurplusBelowOneCraft
       /\ \A x \in Items : (Craftable(x) /\ ~CutOff(x)) => CraftsAreCeiling(x)

\* an item was required by two crafts and crafted once: the second requirement was
\* served from the surplus of the first
C22_Witness ==
    /\ Expanded
    /\ call_out.reused
    /\ \E x \in Items :
          /\ Craftable(x)
          /\ ~CutOff(x)
          /\ Cardinality({k \in 1..Len(call_out.craft_steps) :
                             x \in IngredientKeys(call_out.craft_steps[k][1])}) >= 2
          /\ Cardinality({n \in 1..Len(call_out.lines) :
                             call_out.lines[n][1] = "craft" /\ call_out.lines[n][2] = x}) = 1

(***************************************************************************)
(* C23: _choose_producer returns, among the item's non-developer producers *)
(* whose equipment is owned and whose unlock level is met by the current   *)
(* level of their skill, the one with the lowest (difficulty, unlock       *)
(* level); when none qualifies, the lowest producer overall is the         *)
(* fallback, and MissingCrafterError with the key of an unowned equipment   *)
(* of the fallback is raised whenever the fallback lacks its equipment.    *)
(***************************************************************************)
\* the non-developer recipes loaded that make the item of the call
ProducersOf(item) ==
    {r \in SeqToSet(recipes) : ~book[r].is_dev /\ item \in OutputKeys(r)}

\* the equipment the recipe asks for, the equipment it unlocks itself left out
Asked(r) ==
    Equipment(r) \ (IF book[r].unlock_suffix # "" THEN {"crafter_" \o book[r].unlock_suffix} ELSE {})

Equipped(r) == Asked(r) = {} \/ \E ck \in Asked(r) : Owned(ck)

Qualifies(r) == Equipped(r) /\ book[r].unlock_at <= LevelOf(book[r].skill, 0)

\* (difficulty, unlock level) of a before that of b
KeyBefore(a, b) ==
    \/ book[a].difficulty < book[b].difficulty
    \/ book[a].difficulty = book[b].difficulty /\ book[a].unlock_at < book[b].unlock_at

Lowest(rs) == {r \in rs : \A q \in rs : ~KeyBefore(q, r)}

C23_ProducerSelection ==
    Returned("choose") =>
       LET all == ProducersOf(call_in.item)
           good == {r \in all : Qualifies(r)}
       IN IF all = {} THEN call_out = [recipe |-> 0, err |-> ""]
          ELSE IF good # {} THEN call_out.err = "" /\ call_out.recipe \in Lowest(good)
          ELSE /\ \/ call_out.err = "" /\ call_out.recipe \in Lowest(all)
                                      /\ Equipped(call_out.recipe)
                  \/ /\ call_out.err # "" /\ call_out.recipe = 0
                     /\ \E f \in Lowest(all) :
                           ~Equipped(f) /\ call_out.err \in Asked(f) /\ ~Owned(call_out.err)
               /\ (\A f \in Lowest(all) : ~Equipped(f)) => call_out.err # ""

\* of two producers that qualify the one later in the recipe list, lowest in difficulty,
\* was returned
C23_Witness ==
    /\ Returned("choose")
    /\ Cardinality(ProducersOf(call_in.item)) = 2
    /\ call_out.err = ""
    /\ \E q \in ProducersOf(call_in.item) :
          Qualifies(q) /\ q < call_out.recipe /\ KeyBefore(call_out.recipe, q)

(***************************************************************************)
(* C24: plan() never ends by raising MissingCrafterError: every such error *)
(* raised while expanding a recipe, computing cross-skill gaps or building *)
(* an unlock option is caught inside the option ranker or the prerequisite *)
(* resolver, and planning continues to a returned plan.                    *)
(***************************************************************************)
C24_PlanNeverRaises == pc # "raised"

(***************************************************************************)
(* Direct calls of _xp_to_next_level on game data whose skill tables are   *)
(* absent, stored under another spelling of the key, empty, shorter than   *)
(* the level asked for, or full.                                           *)
(***************************************************************************)
TableKeys == AllSkills \cup {"Skill A", "Skill B"}

TableShapes == {<<>>, <<100>>, [l \in 1..TableLen |-> 100]}

\* at most one spelling of a skill key is loaded
OneSpelling(keys) ==
    \A a, b \in keys : normalize_skill_key(a) = normalize_skill_key(b) => a = b

InitTable ==
    /\ NoService
    /\ \E keys \in {ks \in SUBSET TableKeys : OneSpelling(ks)} :
          skills_table \in [keys -> TableShapes]
    /\ book = [r \in {} |-> RecipeBook[r]]
    /\ recipes = <<>>
    /\ profile = [sk \in {} |-> 0]
    /\ target_level = [sk \in {} |-> 0]
    /\ cur_level = [sk \in {} |-> 0]
    /\ cur_xp = [sk \in {} |-> 0]
    /\ owned_crafter = [ck \in Crafters |-> FALSE]
    /\ premium_account = FALSE
    /\ avoid_relics = FALSE
    /\ material_config = {}
    /\ max_cross_skill_gap = 5
    /\ max_steps = 0
    /\ top_k = DefaultTopK
    /\ skill_queue = <<>>
    /\ steps = 0
    /\ stagnant_cycles = 0
    /\ plan = <<>>
    /\ pc = "call"
    /\ history = <<>>
    /\ call_in = NoCall
    /\ call_out = NoCall
    /\ progress_levels_done = 0
    /\ progress_calls = <<>>

CallXpToNextLevel ==
    /\ pc = "call"
    /\ \E skill \in AllSkills, level \in 0..MaxLevel :
         /\ call_in' = [fn |-> "xp_to_next", skill |-> skill, level |-> level]
         /\ call_out' = [value |-> xp_to_next_level(skill, level)]
    /\ Called

NextTable == CallXpToNextLevel

SpecTable == InitTable /\ [][NextTable]_vars

\* the table the call looked up
AskedTable == get_skill_table(skills_table, call_in.skill)

(***************************************************************************)
(* C25: for a skill whose XP table is missing, or present but empty, the   *)
(* XP-to-next-level the resolver uses is the same positive constant, 1000, *)
(* at every level.                                                         *)
(***************************************************************************)
C25_FallbackForMissingOrEmpty ==
    (Returned("xp_to_next") /\ (~AskedTable.found \/ AskedTable.xp_to_level = <<>>))
       => call_out.value = FallbackXp

(***************************************************************************)
(* PlanService and PlanWorker (paxdei_ui/plan_service.py).  The UI thread  *)
(* runs request_plan, cancel, the timer's _poll_progress and the queued    *)
(* deliveries of a worker's finished/failed signal, one at a time; each    *)
(* worker thread runs PlanWorker.run.  QThread.quit() is remembered by a   *)
(* thread whose run() has not returned to the event loop yet, and          *)
(* QThread.wait() blocks the UI thread until the thread has left run() and *)
(* its event loop.  A queued delivery already posted stays in the UI       *)
(* thread's queue when its sender is dropped.                              *)
(***************************************************************************)
MaxRuns == 2       \* most request_plan() calls
MaxUpdates == 2    \* most progress updates one run records

PlannerVars == <<book, recipes, skills_table, premium_account, avoid_relics, max_cross_skill_gap,
                 material_config, profile, target_level, cur_level, cur_xp,
                 owned_crafter, max_steps, top_k, skill_queue, steps, stagnant_cycles,
                 plan, pc, history, call_in, call_out, progress_levels_done, progress_calls>>

InitService ==
    /\ NoService
    /\ book = [r \in {} |-> RecipeBook[r]]
    /\ recipes = <<>>
    /\ skills_table = [sk \in {} |-> <<>>]
    /\ profile = [sk \in {} |-> 0]
    /\ target_level = [sk \in {} |-> 0]
    /\ cur_level = [sk \in {} |-> 0]
    /\ cur_xp = [sk \in {} |-> 0]
    /\ owned_crafter = [ck \in Crafters |-> FALSE]
    /\ premium_account = FALSE
    /\ avoid_relics = FALSE
    /\ material_config = {}
    /\ max_cross_skill_gap = 5
    /\ max_steps = 0
    /\ top_k = DefaultTopK
    /\ skill_queue = <<>>
    /\ steps = 0
    /\ stagnant_cycles = 0
    /\ plan = <<>>
    /\ pc = "ui"
    /\ history = <<>>
    /\ call_in = NoCall
    /\ call_out = NoCall
    /\ progress_levels_done = 0
    /\ progress_calls = <<>>

\* PlanWorker.__init__ and QThread.start(): run() is entered on the new thread
PlanWorker == [pos |-> "run", _progress_updates |-> <<>>, quit |-> FALSE, recorded |-> <<>>]

Emitted(sig, run, update) == [sig |-> sig, run |-> run, update |-> update, requested |-> runs]

\* QThread.quit() on self._thread
Quit(w) == IF _thread # 0 THEN [w EXCEPT ![_thread].quit = TRUE] ELSE w

\* QThread.isRunning() and QThread.wait() of self._thread: the thread runs until run()
\* has returned and quit() was called
Waits(w) == _thread # 0 /\ w[_thread].pos = "run"

\* _poll_progress: take_progress_updates() empties the queue of self._worker, and
\* every update taken is emitted as plan_progress
poll_taken == IF _worker = 0 THEN <<>> ELSE workers[_worker]._progress_updates

poll_workers == IF _worker = 0 THEN workers ELSE [workers EXCEPT ![_worker]._progress_updates = <<>>]

poll_signals == [i \in 1..Len(poll_taken) |-> Emitted("plan_progress", _worker, poll_taken[i])]

\* cancel() after wait() returned
cancel_rest(w) ==
    /\ workers' = w
    /\ _thread' = 0
    /\ _worker' = 0
    /\ _progress_timer' = FALSE
    /\ UNCHANGED <<runs, signals>>

\* request_plan() after its cancel(): the new worker and thread, the timer restarted,
\* plan_started emitted, the thread started
request_rest(w) ==
    /\ runs' = runs + 1
    /\ workers' = Append(w, PlanWorker)
    /\ _thread' = runs + 1
    /\ _worker' = runs + 1
    /\ _progress_timer' = TRUE
    /\ signals' = Append(signals, [Emitted("plan_started", runs + 1, 0) EXCEPT !.requested = runs + 1])

\* _cleanup() after wait() returned
cleanup_rest(w) ==
    /\ workers' = w
    /\ _thread' = 0
    /\ _worker' = 0
    /\ UNCHANGED <<runs, _progress_timer, signals>>

\* the method blocks in self._thread.wait(): only worker threads run meanwhile
BlockedIn(method, w) ==
    /\ ui_pc' = method
    /\ workers' = w
    /\ UNCHANGED <<runs, _thread, _worker, signals>>

RequestPlan ==
    /\ ui_pc = "idle"
    /\ runs < MaxRuns
    /\ IF Waits(workers)
       THEN BlockedIn("request_plan", Quit(workers)) /\ UNCHANGED _progress_timer
       ELSE request_rest(Quit(workers)) /\ UNCHANGED ui_pc
    /\ UNCHANGED <<ui_events, PlannerVars>>

Cancel ==
    /\ ui_pc = "idle"
    /\ IF Waits(workers)
       THEN BlockedIn("cancel", Quit(workers)) /\ UNCHANGED _progress_timer
       ELSE cancel_rest(Quit(workers)) /\ UNCHANGED ui_pc
    /\ UNCHANGED <<ui_events, PlannerVars>>

\* the timer's timeout: _poll_progress
PollProgress ==
    /\ ui_pc = "idle"
    /\ _progress_timer
    /\ workers' = poll_workers
    /\ signals' = signals \o poll_signals
    /\ UNCHANGED <<runs, _thread, _worker, _progress_timer, ui_events, ui_pc, PlannerVars>>

\* _handle_finished or _handle_failed, delivered from the UI thread's queue
HandleEvent ==
    /\ ui_pc = "idle"
    /\ ui_events # <<>>
    /\ LET ev == Head(ui_events)
           result == IF ev.slot = "_handle_finished" THEN "plan_ready" ELSE "plan_failed"
           emitted == signals \o poll_signals \o <<Emitted(result, ev.run, 0)>>
       IN /\ ui_events' = Tail(ui_events)
          /\ _progress_timer' = FALSE
          /\ IF Waits(poll_workers)
             THEN /\ ui_pc' = "_cleanup"
                  /\ workers' = Quit(poll_workers)
                  /\ signals' = emitted
                  /\ UNCHANGED <<runs, _thread, _worker>>
             ELSE /\ workers' = Quit(poll_workers)
                  /\ signals' = emitted
                  /\ _thread' = 0
                  /\ _worker' = 0
                  /\ UNCHANGED <<runs, ui_pc>>
    /\ UNCHANGED PlannerVars

\* QThread.wait() returns: the blocked method goes on to its end
WaitReturns ==
    /\ ui_pc # "idle"
    /\ ~Waits(workers)
    /\ ui_pc' = "idle"
    /\ CASE ui_pc = "request_plan" -> request_rest(workers)
         [] ui_pc = "cancel" -> cancel_rest(workers)
         [] OTHER -> cleanup_rest(workers)
    /\ UNCHANGED <<ui_events, PlannerVars>>

\* PlanWorker._record_progress, called by plan() on the worker thread
RecordProgress(r) ==
    /\ workers[r].pos = "run"
    /\ Len(workers[r].recorded) < MaxUpdates
    /\ LET update == Len(workers[r].recorded) + 1
       IN workers' = [workers EXCEPT ![r]._progress_updates = Append(@, update),
                                     ![r].recorded = Append(@, update)]
    /\ UNCHANGED <<runs, _thread, _worker, _progress_timer, ui_events, ui_pc, signals, PlannerVars>>

WorkerRecords == \E r \in 1..runs : RecordProgress(r)

\* PlanWorker.run comes to its end: finished or failed is emitted, which posts the
\* delivery to the UI thread, and run() returns
WorkerReturns ==
    \E r \in 1..runs, slot \in {"_handle_finished", "_handle_failed"} :
       /\ workers[r].pos = "run"
       /\ workers' = [workers EXCEPT ![r].pos = "returned"]
       /\ ui_events' = Append(ui_events, [slot |-> slot, run |-> r])
       /\ UNCHANGED <<runs, _thread, _worker, _progress_timer, ui_pc, signals, PlannerVars>>

NextService ==
    \/ RequestPlan
    \/ Cancel
    \/ PollProgress
    \/ HandleEvent
    \/ WaitReturns
    \/ WorkerRecords
    \/ WorkerReturns

SpecService == InitService /\ [][NextService]_vars

\* the updates of run r emitted as plan_progress among the first n signals, in order
ProgressEmitted(r, n) ==
    LET mine(s) == s.sig = "plan_progress" /\ s.run = r
        sel == SelectSeq(SubSeq(signals, 1, n), mine)
    IN [i \in 1..Len(sel) |-> sel[i].update]

IsPrefix(a, b) == Len(a) <= Len(b) /\ SubSeq(b, 1, Len(a)) = a

\* recording an update is possible whatever the UI thread and the other runs do
NeverBlocks ==
    \A r \in 1..runs :
       (workers[r].pos = "run" /\ Len(workers[r].recorded) < MaxUpdates)
          => ENABLED RecordProgress(r)

\* no update is emitted twice or out of order
EmittedInOrder ==
    \A r \in 1..runs : IsPrefix(ProgressEmitted(r, Len(signals)), workers[r].recorded)

\* all a run recorded was emitted before its plan_ready or plan_failed
EmittedBeforeResult ==
    \A n \in 1..Len(signals) :
       signals[n].sig \in {"plan_ready", "plan_failed"}
          => ProgressEmitted(signals[n].run, n) = workers[signals[n].run].recorded

\* plan_ready carries the result of the run requested last
ReadyIsLatest ==
    \A n \in 1..Len(signals) :
       signals[n].sig = "plan_ready" => signals[n].run = signals[n].requested

(***************************************************************************)
(* C26: recording a progress update never blocks the worker; under every   *)
(* interleaving of worker writes, timer polls and request_plan/cancel      *)
(* calls each update a run recorded is emitted as plan_progress exactly    *)
(* once, in the order recorded, before the plan_ready or plan_failed of    *)
(* that run; plan_ready delivers only the result of the most recently      *)
(* requested run.                                                          *)
(***************************************************************************)
C26_ProgressDelivered ==
    /\ NeverBlocks
    /\ EmittedInOrder
    /\ EmittedBeforeResult
    /\ ReadyIsLatest

\* the XP still needed at the level the advancement starts from, in 1/XpUnit
StillNeeded(sk) == (xp_to_next_level(sk, cur_level[sk]) - cur_xp[sk]) * XpUnit

(***************************************************************************)
(* C27: a normal advancement step raises a skill from L to L + 1 only when *)
(* the total expected XP of the step's first option, taken from the full   *)
(* expansion at the chosen craft count, is at least the XP still needed at *)
(* L.                                                                      *)
(***************************************************************************)
C27_AdvanceCoversNeed ==
    [][\A sk \in DOMAIN target_level :
          Advanced(sk) => AdvanceStep.options[1].total_xp >= StillNeeded(sk)]_vars

\* a step was appended to the plan by this iteration
Appended == Len(plan') = Len(plan) + 1 /\ plan' = Append(plan, plan'[Len(plan')])

LastStep == plan'[Len(plan')]

\* self.cur_level.get(sk, 1) after the iteration
LevelAfter(sk) == IF sk \in DOMAIN cur_level' THEN cur_level'[sk] ELSE DefaultLevel

(***************************************************************************)
(* C28: right after a step with a non-empty option list is appended to the *)
(* plan (advancement, gap, prerequisite or next-equipment step), the       *)
(* simulated level of the step's skill is at least the step's to_level.    *)
(***************************************************************************)
C28_StepLevelReflected ==
    [][(Appended /\ LastStep.options # <<>>)
          => LevelAfter(LastStep.skill) >= LastStep.to_level]_vars

\* the iteration raised a level or marked equipment owned
SimulationChanged ==
    \/ \E sk \in DOMAIN cur_level' : sk \notin DOMAIN cur_level \/ cur_level'[sk] > cur_level[sk]
    \/ \E ck \in DOMAIN owned_crafter' : owned_crafter'[ck] /\ ~Owned(ck)

(***************************************************************************)
(* C29: every step appended to the plan, other than the terminal stalled   *)
(* step, changes the simulation state: it raises some skill's level or     *)
(* marks some equipment owned, so that no step without effect is appended  *)
(* again and again up to the step ceiling.                                 *)
(***************************************************************************)
C29_StepsChangeState ==
    [][(Appended /\ LastStep.note # "stalled") => SimulationChanged]_vars

(***************************************************************************)
(* C30: no step of plan() raises a skill that has a target above its       *)
(* target level: after every iteration, every skill of the profile that    *)
(* started at or below its target is at or below its target, feeder skills *)
(* raised by gap steps and skills raised by prerequisite steps included.   *)
(***************************************************************************)
C30_NeverAboveTarget ==
    \A sk \in DOMAIN target_level :
       profile[sk].current_level <= target_level[sk] => cur_level[sk] <= target_level[sk]

RisesAboveTarget(sk) == cur_level[sk] <= target_level[sk] /\ cur_level'[sk] > target_level[sk]

\* C30, amended: a skill that has a target rises above it only by a gap step or a
\* prerequisite step that has options, and then to that step's to_level; an advancement
\* step never raises a skill above its target
C30_AboveTargetOnlyByPrerequisite ==
    [][\A sk \in DOMAIN target_level :
          /\ RisesAboveTarget(sk) =>
                /\ Appended
                /\ LastStep.skill = sk
                /\ LastStep.note \in {"gap", "prereq", "unlock"}
                /\ LastStep.options # <<>>
                /\ cur_level'[sk] = LastStep.to_level
          /\ Advanced(sk) => cur_level'[sk] <= target_level[sk]]_vars

\* the last step is a gap step that took a feeder skill of the profile above its target
C30_Witness ==
    /\ plan # <<>>
    /\ LET st == plan[Len(plan)]
       IN /\ st.note = "gap"
          /\ st.skill \in DOMAIN target_level
          /\ profile[st.skill].current_level <= target_level[st.skill]
          /\ cur_level[st.skill] > target_level[st.skill]
          /\ cur_level[st.skill] = st.to_level

====
